---- MODULE Spec2Model ----
(***************************************************************************)
(* A model of spikesorters' execution layer: the dispatcher run_sorter,    *)
(* the local launcher _run_sorter_local, the container launcher            *)
(* _run_sorter_hither with its job run_sorter_docker_with_container and    *)
(* its runtime hook, and the file handoff of Mountainsort4Sorter.          *)
(*                                                                         *)
(* Paths are sequences of components; an absolute path starts with "/".    *)
(* The host filesystem is the pair (dirs, files).  A file's content        *)
(* records which request wrote it, so that a stale file and a fresh one    *)
(* are told apart.                                                         *)
(***************************************************************************)
EXTENDS Naturals, Integers, Sequences, FiniteSets, TLC

VARIABLES
    HAVE_DOCKER,  \* docker_tools.HAVE_DOCKER, fixed at import time
    dirs,         \* host filesystem: the directories that exist
    files,        \* host filesystem: path -> content
    nreq,         \* number of run_sorter calls made so far
    args,         \* arguments of the current run_sorter call
    pc,           \* position of the current call
    hither,       \* frame of _run_sorter_hither
    job,          \* the hither.Job of the current call
    local,        \* frame of _run_sorter_local
    sorter,       \* the lifecycle instance built by _run_sorter_local
    ret,          \* how the current run_sorter call ended
    made,         \* directories the current call created
    trace         \* events of the current call, in order

vars == <<HAVE_DOCKER, dirs, files, nreq, args, pc, hither, job, local, sorter,
          ret, made, trace>>

----------------------------------------------------------------------------
(* Bounds *)

MaxRequests == 2

----------------------------------------------------------------------------
(* Paths and the filesystem *)

None == <<>>

Cwd == <<"/", "cwd">>

\* pathlib.Path(p).absolute()
absolute(p) == IF Head(p) = "/" THEN p ELSE Cwd \o p

\* p / name
joinpath(p, name) == Append(p, name)

IsUnder(p, root) ==
    /\ Len(p) >= Len(root)
    /\ SubSeq(p, 1, Len(root)) = root

Prefixes(p) == {SubSeq(p, 1, k) : k \in 1..Len(p)}

\* Path.mkdir(exist_ok=True, parents=True)
mkdir(ds, p) == ds \cup Prefixes(p)

\* shutil.rmtree(p): the directories left, the files left
rmtree_dirs(ds, p) == {d \in ds : ~IsUnder(d, p)}

rmtree_files(fs, p) ==
    [q \in {r \in DOMAIN fs : ~IsUnder(r, p)} |-> fs[q]]

\* writing content c at path q
write_file(fs, q, c) ==
    [r \in (DOMAIN fs) \cup {q} |-> IF r = q THEN c ELSE fs[r]]

HostRoot == {<<"/">>, Cwd}

----------------------------------------------------------------------------
(* The registry *)

sorter_full_list ==
    << "HDSortSorter", "KlustaSorter", "TridesclousSorter", "Mountainsort4Sorter",
       "IronClustSorter", "KilosortSorter", "Kilosort2Sorter", "Kilosort2_5Sorter",
       "Kilosort3Sorter", "SpykingcircusSorter", "HerdingspikesSorter",
       "WaveClusSorter", "YassSorter", "CombinatoSorter" >>

\* s.sorter_name of each class of sorter_full_list
sorter_name_of ==
    [c \in {sorter_full_list[i] : i \in DOMAIN sorter_full_list} |->
        CASE c = "HDSortSorter"        -> "hdsort"
          [] c = "KlustaSorter"        -> "klusta"
          [] c = "TridesclousSorter"   -> "tridesclous"
          [] c = "Mountainsort4Sorter" -> "mountainsort4"
          [] c = "IronClustSorter"     -> "ironclust"
          [] c = "KilosortSorter"      -> "kilosort"
          [] c = "Kilosort2Sorter"     -> "kilosort2"
          [] c = "Kilosort2_5Sorter"   -> "kilosort2_5"
          [] c = "Kilosort3Sorter"     -> "kilosort3"
          [] c = "SpykingcircusSorter" -> "spykingcircus"
          [] c = "HerdingspikesSorter" -> "herdingspikes"
          [] c = "WaveClusSorter"      -> "waveclus"
          [] c = "YassSorter"          -> "yass"
          [] c = "CombinatoSorter"     -> "combinato"]

\* `x in sorter_full_list`
InFullList(c) == \E i \in DOMAIN sorter_full_list : sorter_full_list[i] = c

\* sorter_dict = {s.sorter_name: s for s in sorter_full_list}
sorter_dict ==
    [n \in {sorter_name_of[sorter_full_list[i]] : i \in DOMAIN sorter_full_list} |->
        CHOOSE c \in DOMAIN sorter_name_of : sorter_name_of[c] = n]

\* Mountainsort4Sorter.compatible_with_parallel
\* compatible_with_parallel with every pool backend marked usable.
compatible_with_parallel_any ==
    [b \in {"loky", "multiprocessing", "threading"} |-> TRUE]

compatible_with_parallel ==
    [b \in {"loky", "multiprocessing", "threading"} |-> b = "loky"]

\* the keys of Mountainsort4Sorter._default_params
default_param_keys ==
    {"detect_sign", "adjacency_radius", "freq_min", "freq_max", "filter", "whiten",
     "curation", "num_workers", "clip_size", "detect_threshold", "detect_interval",
     "noise_overlap_threshold", "add_end_clip", "freq_width"}

\* docker_tools.default_docker_images: the identifiers that have an image
default_docker_images == DOMAIN sorter_dict

----------------------------------------------------------------------------
(* Exceptions.  An exception is its Python type and the line that raises it; *)
(* the exceptions of BaseSorter carry the name of the error kind.            *)

Exc(type, line) == [type |-> type, line |-> line]

NoRet == [kind |-> "none"]

NoFrame == [status |-> "none"]

----------------------------------------------------------------------------
(* Inputs of run_sorter *)

SorterInputs ==
    { [kind |-> "str", val |-> "mountainsort4"],
      [kind |-> "str", val |-> "nosuch"],
      [kind |-> "cls", val |-> "Mountainsort4Sorter"],
      [kind |-> "cls", val |-> "NotASorter"] }

OutputFolderInputs == {None, <<"out">>}

ParallelInputs ==
    { [parallel |-> FALSE, joblib_backend |-> "loky"],
      [parallel |-> TRUE,  joblib_backend |-> "threading"] }

ParamsInputs == { {}, {"bogus"} }

ArgsInputs ==
    { [sorter_name_or_class |-> s, is_dumpable |-> d, output_folder |-> o,
       delete_output_folder |-> del, use_docker |-> u, raise_error |-> r,
       parallel |-> pj.parallel, joblib_backend |-> pj.joblib_backend,
       params |-> ps] :
      s \in SorterInputs, d \in BOOLEAN, o \in OutputFolderInputs,
      del \in BOOLEAN, u \in BOOLEAN, r \in BOOLEAN, pj \in ParallelInputs,
      ps \in ParamsInputs }

----------------------------------------------------------------------------
(* The state after import *)

Init ==
    /\ HAVE_DOCKER \in BOOLEAN
    /\ dirs = HostRoot
    /\ files = << >>
    /\ nreq = 0
    /\ args = NoFrame
    /\ pc = "idle"
    /\ hither = NoFrame
    /\ job = NoFrame
    /\ local = NoFrame
    /\ sorter = NoFrame
    /\ ret = NoRet
    /\ made = {}
    /\ trace = << >>

\* An exception raised at the current position: inside the job body it ends the
\* job with an error, elsewhere it leaves run_sorter.
Raise(exc) ==
    IF job.status = "running"
    THEN /\ job' = [job EXCEPT !.status = "error", !.error = exc]
         /\ pc' = "hither_179"
         /\ UNCHANGED ret
    ELSE /\ ret' = [kind |-> "raise", exc |-> exc]
         /\ pc' = "done"
         /\ UNCHANGED job

\* A caller invokes run_sorter(sorter_name_or_class, recording, ...).
Call(a) ==
    /\ pc = "idle"
    /\ nreq < MaxRequests
    /\ nreq' = nreq + 1
    /\ args' = a
    /\ pc' = "run_sorter"
    /\ UNCHANGED <<HAVE_DOCKER, dirs, files, hither, job, local, sorter, ret,
                   made, trace>>

\* The call is over: the caller holds its result or its exception, and the
\* frames of the call are gone.  Only the filesystem keeps what the call did.
Finish ==
    /\ pc = "done"
    /\ pc' = "idle"
    /\ args' = NoFrame
    /\ hither' = NoFrame
    /\ job' = NoFrame
    /\ local' = NoFrame
    /\ sorter' = NoFrame
    /\ ret' = NoRet
    /\ made' = {}
    /\ trace' = << >>
    /\ UNCHANGED <<HAVE_DOCKER, dirs, files, nreq>>

----------------------------------------------------------------------------
(* run_sorter *)

\* run_sorter without the assertion of line 88.
run_sorter_route_unasserted(a, have_docker) ==
    IF a.use_docker
    THEN IF a.sorter_name_or_class.kind = "str"
         THEN [to |-> "hither", sorter_name |-> a.sorter_name_or_class.val]
         ELSE IF InFullList(a.sorter_name_or_class.val)
         THEN [to |-> "hither",
               sorter_name |-> sorter_name_of[a.sorter_name_or_class.val]]
         ELSE [to |-> "raise", exc |-> Exc("ValueError", 96)]
    ELSE [to |-> "local"]

\* run_sorter passing the class itself where line 94 takes its sorter_name.
run_sorter_route_by_class(a, have_docker) ==
    IF a.use_docker
    THEN IF ~have_docker
         THEN [to |-> "raise", exc |-> Exc("AssertionError", 88)]
         ELSE IF a.sorter_name_or_class.kind = "str"
         THEN [to |-> "hither", sorter_name |-> a.sorter_name_or_class.val]
         ELSE IF InFullList(a.sorter_name_or_class.val)
         THEN [to |-> "hither", sorter_name |-> a.sorter_name_or_class.val]
         ELSE [to |-> "raise", exc |-> Exc("ValueError", 96)]
    ELSE [to |-> "local"]

\* Lines 87-105: where the call goes.
run_sorter_route(a, have_docker) ==
    IF a.use_docker
    THEN IF ~have_docker
         THEN [to |-> "raise", exc |-> Exc("AssertionError", 88)]
         ELSE IF a.sorter_name_or_class.kind = "str"
         THEN [to |-> "hither", sorter_name |-> a.sorter_name_or_class.val]
         ELSE IF InFullList(a.sorter_name_or_class.val)
         THEN [to |-> "hither",
               sorter_name |-> sorter_name_of[a.sorter_name_or_class.val]]
         ELSE [to |-> "raise", exc |-> Exc("ValueError", 96)]
    ELSE [to |-> "local"]

\* The arguments _run_sorter_local receives from run_sorter (lines 102-105).
local_frame_of_run_sorter(a) ==
    [ctx |-> "host",
     sorter_name_or_class |-> a.sorter_name_or_class,
     output_folder |-> a.output_folder,
     delete_output_folder |-> a.delete_output_folder,
     raise_error |-> a.raise_error,
     parallel |-> a.parallel,
     joblib_backend |-> a.joblib_backend,
     params |-> a.params,
     SorterClass |-> "",
     sortingextractor |-> NoRet]

\* The arguments _run_sorter_hither receives from run_sorter (lines 97-100).
hither_frame_of_run_sorter(a, name) ==
    [sorter_name |-> name,
     is_dumpable |-> a.is_dumpable,
     output_folder |-> a.output_folder,
     delete_output_folder |-> a.delete_output_folder,
     raise_error |-> a.raise_error,
     parallel |-> a.parallel,
     joblib_backend |-> a.joblib_backend,
     params |-> a.params,
     sorting |-> NoRet,
     archive_req |-> 0]

run_sorter ==
    /\ pc = "run_sorter"
    /\ LET r == run_sorter_route(args, HAVE_DOCKER) IN
       CASE r.to = "raise" ->
                /\ Raise(r.exc)
                /\ UNCHANGED <<hither, local>>
         [] r.to = "hither" ->
                /\ hither' = hither_frame_of_run_sorter(args, r.sorter_name)
                /\ pc' = "hither_160"
                /\ UNCHANGED <<local, ret, job>>
         [] r.to = "local" ->
                /\ local' = local_frame_of_run_sorter(args)
                /\ pc' = "local_238"
                /\ UNCHANGED <<hither, ret, job>>
    /\ UNCHANGED <<HAVE_DOCKER, dirs, files, nreq, args, sorter, made, trace>>

----------------------------------------------------------------------------
(* The container: bind mounts and the job *)

\* The fixed container paths of SpikeSortingDockerHook.precontainer.
ContainerInput == <<"/", "input">>

ContainerOutput == <<"/", "output">>

\* The host directory docker_tools.modify_input_folder returns for the recording.
InputDirectory == <<"/", "data">>

\* The mounts that cover container path p.
MountsOf(mounts, p) == {m \in mounts : IsUnder(p, m.target)}

\* The host path behind container path p: through the bind mount that covers
\* it, or else in the container's own layer.
container_to_host(mounts, p) ==
    IF MountsOf(mounts, p) = {}
    THEN <<"container">> \o p
    ELSE LET m == CHOOSE x \in MountsOf(mounts, p) : TRUE IN
         m.source \o SubSeq(p, Len(m.target) + 1, Len(p))

\* Whether the container may write at path p.
container_writable(mounts, p) == \A m \in MountsOf(mounts, p) : ~m.read_only

\* Lines 129-132: the bind mounts the hook adds.
precontainer_mounts(kw) ==
    { [source |-> kw.input_directory, target |-> ContainerInput, read_only |-> TRUE],
      [source |-> kw.output_directory, target |-> ContainerOutput, read_only |-> FALSE] }

\* A hook that rewrites the input directory only.
precontainer_kwargs_output_kept(kw) ==
    [kw EXCEPT !.input_directory = ContainerInput]

\* Lines 134-135: the kwargs the job body receives.
precontainer_kwargs(kw) ==
    [kw EXCEPT !.output_directory = ContainerOutput,
               !.input_directory = ContainerInput]

\* Line 155: the archive the job body writes.
job_archive_path(kw) == joinpath(kw.output_directory, "sorting_docker.npz")

\* Line 180: the archive the host reads.
host_archive_path(h) == joinpath(h.output_folder, "sorting_docker.npz")

\* Lines 148-151: the arguments _run_sorter_local receives inside the job.
job_local_frame(kw) ==
    [ctx |-> "container",
     sorter_name_or_class |-> [kind |-> "str", val |-> kw.sorter_name],
     output_folder |-> joinpath(kw.output_directory, "working"),
     delete_output_folder |-> kw.delete_output_folder,
     raise_error |-> kw.raise_error,
     parallel |-> kw.parallel,
     joblib_backend |-> kw.joblib_backend,
     params |-> kw.params,
     SorterClass |-> "",
     sortingextractor |-> NoRet]

----------------------------------------------------------------------------
(* _run_sorter_hither *)

\* _run_sorter_hither without the assertion of line 160.
hither_precondition_dropped(h) == TRUE

\* Line 160: what the launcher asserts of the recording.
hither_precondition(h) == h.is_dumpable

\* Lines 161-163: the host output directory.
hither_output_folder(h) ==
    absolute(IF h.output_folder = None
             THEN <<h.sorter_name \o "_output">>
             ELSE h.output_folder)

\* The kwargs of the job with the caller's delete flag handed on.
hither_kwargs_delete_passed(h) ==
    [sorter_name |-> h.sorter_name,
     output_folder |-> h.output_folder,
     delete_output_folder |-> h.delete_output_folder,
     raise_error |-> h.raise_error,
     parallel |-> h.parallel,
     joblib_backend |-> h.joblib_backend,
     params |-> h.params,
     input_directory |-> InputDirectory,
     output_directory |-> h.output_folder]

\* Lines 168-177: the kwargs of the job.
hither_kwargs(h) ==
    [sorter_name |-> h.sorter_name,
     output_folder |-> h.output_folder,
     delete_output_folder |-> FALSE,
     raise_error |-> h.raise_error,
     parallel |-> h.parallel,
     joblib_backend |-> h.joblib_backend,
     params |-> h.params,
     input_directory |-> InputDirectory,
     output_directory |-> h.output_folder]

\* A wait that returns however the job ended.
wait_raises_never(j) == FALSE

\* Line 179: whether sorting_job.wait() raises, given how the job ended.
wait_raises(j) == j.status = "error"

\* Lines 184-188 when the runtime is absent, line 160 when it is present.
hither_160 ==
    /\ pc = "hither_160"
    /\ IF ~HAVE_DOCKER
       THEN Raise(Exc("NotImplementedError", 188))
       ELSE IF ~hither_precondition(hither)
       THEN Raise(Exc("AssertionError", 160))
       ELSE /\ pc' = "hither_161"
            /\ UNCHANGED <<ret, job>>
    /\ UNCHANGED <<HAVE_DOCKER, dirs, files, nreq, args, hither, local, sorter,
                   made, trace>>

\* Lines 161-164.
hither_161 ==
    /\ pc = "hither_161"
    /\ LET folder == hither_output_folder(hither) IN
       /\ hither' = [hither EXCEPT !.output_folder = folder]
       /\ dirs' = mkdir(dirs, folder)
       /\ made' = made \cup (mkdir(dirs, folder) \ dirs)
    /\ trace' = Append(trace, "mkdir")
    /\ pc' = "hither_166"
    /\ UNCHANGED <<HAVE_DOCKER, files, nreq, args, job, local, sorter, ret>>

\* Lines 166-178 without the wait of line 179: the archive is read next.
hither_166_unwaited ==
    /\ pc = "hither_166"
    /\ job' = [status |-> "queued", kwargs |-> hither_kwargs(hither),
               mounts |-> {}, error |-> NoRet]
    /\ trace' = Append(trace, "submit")
    /\ pc' = "hither_180"
    /\ UNCHANGED <<HAVE_DOCKER, dirs, files, nreq, args, hither, local, sorter,
                   ret, made>>

\* Lines 166-178: the job is built and submitted.
hither_166 ==
    /\ pc = "hither_166"
    /\ job' = [status |-> "queued", kwargs |-> hither_kwargs(hither),
               mounts |-> {}, error |-> NoRet]
    /\ trace' = Append(trace, "submit")
    /\ pc' = "precontainer"
    /\ UNCHANGED <<HAVE_DOCKER, dirs, files, nreq, args, hither, local, sorter,
                   ret, made>>

\* SpikeSortingDockerHook.precontainer, lines 123-135.
precontainer ==
    /\ pc = "precontainer"
    /\ IF job.kwargs.sorter_name \in default_docker_images
       THEN /\ job' = [job EXCEPT !.status = "running",
                                  !.mounts = precontainer_mounts(job.kwargs),
                                  !.kwargs = precontainer_kwargs(job.kwargs)]
            /\ pc' = "job_146"
       ELSE /\ job' = [job EXCEPT !.status = "error",
                                  !.error = Exc("KeyError", 133)]
            /\ pc' = "hither_179"
    /\ UNCHANGED <<HAVE_DOCKER, dirs, files, nreq, args, hither, local, sorter,
                   ret, made, trace>>

\* run_sorter_docker_with_container, lines 146-151: the call of _run_sorter_local.
job_146 ==
    /\ pc = "job_146"
    /\ local' = job_local_frame(job.kwargs)
    /\ pc' = "local_238"
    /\ UNCHANGED <<HAVE_DOCKER, dirs, files, nreq, args, hither, job, sorter,
                   ret, made, trace>>

\* run_sorter_docker_with_container, lines 152-155: the archive is written.
job_155 ==
    /\ pc = "job_155"
    /\ LET p == job_archive_path(job.kwargs) IN
       IF container_writable(job.mounts, p)
       THEN /\ files' = write_file(files, container_to_host(job.mounts, p),
                                   [sorting |-> local.sortingextractor, req |-> nreq])
            /\ job' = [job EXCEPT !.status = "finished"]
            /\ pc' = "hither_179"
            /\ UNCHANGED ret
       ELSE /\ Raise(Exc("OSError", 155))
            /\ UNCHANGED files
    /\ UNCHANGED <<HAVE_DOCKER, dirs, nreq, args, hither, local, sorter, made,
                   trace>>

\* Line 179: sorting_job.wait() returns, or raises the job's error.
hither_179 ==
    /\ pc = "hither_179"
    /\ IF wait_raises(job)
       THEN /\ ret' = [kind |-> "raise", exc |-> job.error]
            /\ pc' = "done"
            /\ UNCHANGED trace
       ELSE /\ trace' = Append(trace, "wait")
            /\ pc' = "hither_180"
            /\ UNCHANGED ret
    /\ UNCHANGED <<HAVE_DOCKER, dirs, files, nreq, args, hither, job, local,
                   sorter, made>>

\* Line 180: the archive is read.
hither_180 ==
    /\ pc = "hither_180"
    /\ LET p == host_archive_path(hither) IN
       IF p \in DOMAIN files
       THEN /\ hither' = [hither EXCEPT !.sorting = files[p].sorting,
                                        !.archive_req = files[p].req]
            /\ trace' = Append(trace, "read")
            /\ pc' = "hither_181"
            /\ UNCHANGED ret
       ELSE /\ ret' = [kind |-> "raise", exc |-> Exc("FileNotFoundError", 180)]
            /\ pc' = "done"
            /\ UNCHANGED <<hither, trace>>
    /\ UNCHANGED <<HAVE_DOCKER, dirs, files, nreq, args, job, local, sorter, made>>

\* Lines 181-183 with the test of line 181 left out.
hither_181_flag_ignored ==
    /\ pc = "hither_181"
    /\ dirs' = rmtree_dirs(dirs, hither.output_folder)
    /\ files' = rmtree_files(files, hither.output_folder)
    /\ trace' = Append(trace, "rmtree")
    /\ ret' = [kind |-> "return", sorting |-> hither.sorting]
    /\ pc' = "done"
    /\ UNCHANGED <<HAVE_DOCKER, nreq, args, hither, job, local, sorter, made>>

\* Lines 181-183 and 106: the output directory is deleted when asked, and the
\* sorting is returned.
hither_181 ==
    /\ pc = "hither_181"
    /\ IF hither.delete_output_folder
       THEN /\ dirs' = rmtree_dirs(dirs, hither.output_folder)
            /\ files' = rmtree_files(files, hither.output_folder)
            /\ trace' = Append(trace, "rmtree")
       ELSE UNCHANGED <<dirs, files, trace>>
    /\ ret' = [kind |-> "return", sorting |-> hither.sorting]
    /\ pc' = "done"
    /\ UNCHANGED <<HAVE_DOCKER, nreq, args, hither, job, local, sorter, made>>

----------------------------------------------------------------------------
(* The lifecycle (BaseSorter) and Mountainsort4Sorter's file handoff *)

\* The host path behind path p of the running _run_sorter_local.
local_path(l, mounts, p) ==
    IF l.ctx = "container" THEN container_to_host(mounts, p) ELSE p

\* BaseSorter.__init__: the output folder of the instance.
sorter_output_folder(cls, l) ==
    absolute(IF l.output_folder = None
             THEN <<sorter_name_of[cls] \o "_output">>
             ELSE l.output_folder)

\* BaseSorter.set_params: the override keys that are not parameters.
bad_params(params) == params \ default_param_keys

\* BaseSorter.run: whether the worker-pool backend is refused.
pool_refused(l) == l.parallel /\ ~compatible_with_parallel[l.joblib_backend]

\* How far Mountainsort4Sorter._run got: it returned, it raised before line
\* 131, or it raised between the write of line 131 and the write of line 135.
RunOutcomes == {"returned", "raised_before_131", "raised_before_135"}

\* Mountainsort4Sorter._run, lines 131-135: the files a run leaves in `folder`.
run_writes(fs, folder, outcome, req) ==
    LET mda == joinpath(folder, "firings.mda")
        txt == joinpath(folder, "samplerate.txt")
        c   == [sorting |-> [origin |-> req, empty |-> FALSE], req |-> req]
    IN  CASE outcome = "returned"          -> write_file(write_file(fs, mda, c), txt, c)
          [] outcome = "raised_before_135" -> write_file(fs, mda, c)
          [] outcome = "raised_before_131" -> fs

\* Mountainsort4Sorter.get_result_from_folder, lines 137-148.
get_result_from_folder(fs, folder) ==
    LET mda == joinpath(folder, "firings.mda")
        txt == joinpath(folder, "samplerate.txt")
    IN  IF txt \notin DOMAIN fs
        THEN [ok |-> FALSE, exc |-> Exc("FileNotFoundError", 144)]
        ELSE IF mda \notin DOMAIN fs
        THEN [ok |-> FALSE, exc |-> Exc("FileNotFoundError", 147)]
        ELSE [ok |-> TRUE, sorting |-> fs[mda].sorting]

\* The result a request yields when its failure was recorded and not raised.
EmptySorting(req) == [origin |-> req, empty |-> TRUE]

----------------------------------------------------------------------------
(* _run_sorter_local *)

\* Lines 238-243.
local_resolve(x) ==
    IF x.kind = "str"
    THEN IF x.val \in DOMAIN sorter_dict
         THEN [ok |-> TRUE, cls |-> sorter_dict[x.val]]
         ELSE [ok |-> FALSE, exc |-> Exc("KeyError", 239)]
    ELSE IF InFullList(x.val)
         THEN [ok |-> TRUE, cls |-> x.val]
         ELSE [ok |-> FALSE, exc |-> Exc("ValueError", 243)]

\* raise_error passed on negated.
local_raise_error_negated(l) == ~l.raise_error

\* raise_error not passed on: the default of sorter.run, True.
local_raise_error_default(l) == TRUE

\* raise_error not passed on: failures always swallowed.
local_raise_error_swallowed(l) == FALSE

\* Lines 248-249: the raise_error both sorter.run and sorter.get_result receive.
local_raise_error(l) == l.raise_error

local_238 ==
    /\ pc = "local_238"
    /\ LET r == local_resolve(local.sorter_name_or_class) IN
       IF r.ok
       THEN /\ local' = [local EXCEPT !.SorterClass = r.cls]
            /\ pc' = "local_245"
            /\ UNCHANGED <<ret, job>>
       ELSE /\ Raise(r.exc)
            /\ UNCHANGED local
    /\ UNCHANGED <<HAVE_DOCKER, dirs, files, nreq, args, hither, sorter, made,
                   trace>>

\* Lines 245-246 followed at once by line 248: set_params left out.
local_245_params_skipped ==
    /\ pc = "local_245"
    /\ LET folder == sorter_output_folder(local.SorterClass, local)
           host   == local_path(local, job.mounts, folder)
       IN  /\ sorter' = [cls |-> local.SorterClass,
                         output_folder |-> folder,
                         delete_folders |-> local.delete_output_folder,
                         state |-> "CREATED"]
           /\ dirs' = mkdir(dirs, host)
           /\ made' = made \cup (mkdir(dirs, host) \ dirs)
    /\ trace' = Append(trace, "construct")
    /\ pc' = "local_248"
    /\ UNCHANGED <<HAVE_DOCKER, files, nreq, args, hither, job, local, ret>>

\* Lines 245-246: SorterClass(...) builds the instance and its output folder.
local_245 ==
    /\ pc = "local_245"
    /\ LET folder == sorter_output_folder(local.SorterClass, local)
           host   == local_path(local, job.mounts, folder)
       IN  /\ sorter' = [cls |-> local.SorterClass,
                         output_folder |-> folder,
                         delete_folders |-> local.delete_output_folder,
                         state |-> "CREATED"]
           /\ dirs' = mkdir(dirs, host)
           /\ made' = made \cup (mkdir(dirs, host) \ dirs)
    /\ trace' = Append(trace, "construct")
    /\ pc' = "local_247"
    /\ UNCHANGED <<HAVE_DOCKER, files, nreq, args, hither, job, local, ret>>

\* Line 247: sorter.set_params(**params).
local_247 ==
    /\ pc = "local_247"
    /\ IF bad_params(local.params) = {}
       THEN /\ sorter' = [sorter EXCEPT !.state = "PARAMS_BOUND"]
            /\ pc' = "local_248"
            /\ UNCHANGED <<ret, job>>
       ELSE /\ Raise(Exc("InvalidParameter", 247))
            /\ UNCHANGED sorter
    /\ UNCHANGED <<HAVE_DOCKER, dirs, files, nreq, args, hither, local, made,
                   trace>>

\* Line 248: sorter.run(...) starts, unless the pool backend is refused.
local_248 ==
    /\ pc = "local_248"
    /\ IF pool_refused(local)
       THEN /\ Raise(Exc("UnsupportedConcurrencyModel", 248))
            /\ UNCHANGED <<sorter, trace>>
       ELSE /\ sorter' = [sorter EXCEPT !.state = "RUNNING"]
            /\ trace' = Append(trace, "run")
            /\ pc' = "_run"
            /\ UNCHANGED <<ret, job>>
    /\ UNCHANGED <<HAVE_DOCKER, dirs, files, nreq, args, hither, local, made>>

\* Line 248, continued: Mountainsort4Sorter._run returns or raises; a failure
\* leaves sorter.run as an exception only when raise_error is set.
mountainsort4_run(outcome) ==
    /\ pc = "_run"
    /\ files' = run_writes(files, local_path(local, job.mounts, sorter.output_folder),
                           outcome, nreq)
    /\ IF outcome = "returned"
       THEN /\ pc' = "local_249"
            /\ UNCHANGED <<sorter, ret, job>>
       ELSE /\ sorter' = [sorter EXCEPT !.state = "FAILED"]
            /\ IF local_raise_error(local)
               THEN Raise(Exc("ExecutionError", 248))
               ELSE /\ pc' = "local_249"
                    /\ UNCHANGED <<ret, job>>
    /\ UNCHANGED <<HAVE_DOCKER, dirs, nreq, args, hither, local, made, trace>>

\* Lines 249-251: sorter.get_result(raise_error) and the return.
local_249 ==
    /\ pc = "local_249"
    /\ LET folder == local_path(local, job.mounts, sorter.output_folder)
           r      == get_result_from_folder(files, folder)
           failed == sorter.state = "FAILED" \/ ~r.ok
           exc    == IF sorter.state = "FAILED"
                     THEN Exc("ExecutionError", 249)
                     ELSE Exc("ResultMissing", 249)
           result == IF failed THEN EmptySorting(nreq) ELSE r.sorting
       IN  IF failed /\ local_raise_error(local)
           THEN /\ sorter' = [sorter EXCEPT !.state = "FAILED"]
                /\ Raise(exc)
                /\ UNCHANGED <<dirs, files, local, trace>>
           ELSE /\ sorter' = [sorter EXCEPT
                                !.state = IF failed THEN "FAILED" ELSE "COMPLETED"]
                /\ local' = [local EXCEPT !.sortingextractor = result]
                /\ trace' = Append(trace, IF failed THEN "get_result:empty"
                                                    ELSE "get_result:read")
                /\ IF sorter.delete_folders
                   THEN /\ dirs' = rmtree_dirs(dirs, folder)
                        /\ files' = rmtree_files(files, folder)
                   ELSE UNCHANGED <<dirs, files>>
                /\ IF local.ctx = "container"
                   THEN /\ pc' = "job_155"
                        /\ UNCHANGED ret
                   ELSE /\ ret' = [kind |-> "return", sorting |-> result]
                        /\ pc' = "done"
                /\ UNCHANGED job
    /\ UNCHANGED <<HAVE_DOCKER, nreq, args, hither, made>>

----------------------------------------------------------------------------

Next ==
    \/ \E a \in ArgsInputs : Call(a)
    \/ Finish
    \/ run_sorter
    \/ hither_160
    \/ hither_161
    \/ hither_166
    \/ precontainer
    \/ job_146
    \/ job_155
    \/ hither_179
    \/ hither_180
    \/ hither_181
    \/ local_238
    \/ local_245
    \/ local_247
    \/ local_248
    \/ \E outcome \in RunOutcomes : mountainsort4_run(outcome)
    \/ local_249

Spec == Init /\ [][Next]_vars

----------------------------------------------------------------------------
(* The error kinds of the specification, as the code raises them *)

\* The kind of an exception that left run_sorter.
ErrorKind(exc) ==
    CASE exc.type = "AssertionError" /\ exc.line = 88   -> "BackendUnavailable"
      [] exc.type = "AssertionError" /\ exc.line = 160  -> "NotTransportable"
      [] exc.type = "ValueError"                        -> "UnknownBackend"
      [] exc.type = "KeyError"                          -> "UnknownBackend"
      [] exc.type = "FileNotFoundError"                 -> "ResultMissing"
      [] exc.type = "OSError"                           -> "ExecutionError"
      [] OTHER                                          -> exc.type

\* Whether the backend argument of the current call resolves.
Registered(x) ==
    IF x.kind = "str" THEN x.val \in DOMAIN sorter_dict ELSE InFullList(x.val)

InCall == pc \notin {"idle"}

Raised == pc = "done" /\ ret.kind = "raise"

Returned == pc = "done" /\ ret.kind = "return"

Events == {trace[i] : i \in DOMAIN trace}

IsHitherEvent(e) == e \in {"mkdir", "submit", "wait", "read", "rmtree"}

HitherEvents == SelectSeq(trace, IsHitherEvent)

IsPrefixOf(s, t) == Len(s) <= Len(t) /\ SubSeq(t, 1, Len(s)) = s

\* The backend of the current call failed during its run.
BackendFailed ==
    /\ InCall
    /\ sorter # NoFrame
    /\ sorter.state = "FAILED"
    /\ "run" \in Events

----------------------------------------------------------------------------
(* Claims *)

\* C1: a call of run_sorter with an identifier string that is not in the
\* registry (on the local path, and on the container path with the runtime
\* present and a dumpable recording) fails with UnknownBackend, and when it
\* fails the call has made no directory and submitted no job.
C1_UnknownIdentifierFailsClean ==
    ( /\ pc = "done"
      /\ args.sorter_name_or_class.kind = "str"
      /\ ~Registered(args.sorter_name_or_class)
      /\ args.use_docker => (HAVE_DOCKER /\ args.is_dumpable) )
    => /\ ret.kind = "raise"
       /\ ErrorKind(ret.exc) = "UnknownBackend"
       /\ made = {}
       /\ "submit" \notin Events

\* C2: an InvalidParameter or UnsupportedConcurrencyModel failure of
\* run_sorter happens before any OutputLocation is created: before the
\* lifecycle instance is constructed with its output folder on the local
\* path, before the host output directory is made and the job is submitted
\* on the container path.
C2_ParameterErrorsBeforeOutputLocation ==
    ( /\ Raised
      /\ ErrorKind(ret.exc) \in {"InvalidParameter", "UnsupportedConcurrencyModel"} )
    => /\ made = {}
       /\ "construct" \notin Events
       /\ "mkdir" \notin Events
       /\ "submit" \notin Events

\* C3: run_sorter resolves the backend before it checks the container
\* capability: with use_docker set and a backend that does not resolve the
\* call ends with UnknownBackend whether HAVE_DOCKER holds or not, and
\* BackendUnavailable is raised only for a backend that resolves.
C3_ResolveBeforeCapability ==
    /\ ( /\ pc = "done"
         /\ args.use_docker
         /\ args.is_dumpable
         /\ ~Registered(args.sorter_name_or_class) )
       => (ret.kind = "raise" /\ ErrorKind(ret.exc) = "UnknownBackend")
    /\ (Raised /\ ErrorKind(ret.exc) = "BackendUnavailable")
       => Registered(args.sorter_name_or_class)

\* C4: with use_docker set and HAVE_DOCKER false, run_sorter fails with
\* BackendUnavailable for every registered backend and every option
\* combination; neither launcher is entered (the stub that raises
\* NotImplementedError is not reached) and nothing is created.
C4_NoRuntimeMeansBackendUnavailable ==
    ( /\ InCall
      /\ args.use_docker
      /\ ~HAVE_DOCKER
      /\ Registered(args.sorter_name_or_class) )
    => /\ pc \in {"run_sorter", "done"}
       /\ hither = NoFrame
       /\ local = NoFrame
       /\ job = NoFrame
       /\ made = {}
       /\ trace = << >>
       /\ pc = "done" =>
            (ret.kind = "raise" /\ ErrorKind(ret.exc) = "BackendUnavailable")

C4_Witness ==
    /\ Raised
    /\ args.use_docker
    /\ ~HAVE_DOCKER
    /\ Registered(args.sorter_name_or_class)
    /\ ErrorKind(ret.exc) = "BackendUnavailable"
    /\ args.params # {}
    /\ args.parallel

\* C5: _run_sorter_hither, given a recording that is not dumpable, fails with
\* NotTransportable before the host output directory is made, before the
\* recording is staged and before a job is submitted, whatever the other
\* options, also when the output location exists already.
C5_NotDumpableFailsFirst ==
    ( /\ InCall
      /\ hither # NoFrame
      /\ ~hither.is_dumpable )
    => /\ pc \in {"hither_160", "done"}
       /\ made = {}
       /\ trace = << >>
       /\ job = NoFrame
       /\ pc = "done" =>
            (ret.kind = "raise" /\ ErrorKind(ret.exc) = "NotTransportable")

C5_Witness ==
    /\ Raised
    /\ hither # NoFrame
    /\ ~hither.is_dumpable
    /\ ErrorKind(ret.exc) = "NotTransportable"
    /\ hither_output_folder(hither) \in dirs

\* C6: across container requests that reuse an output location, the archive
\* sorting_docker.npz is read, and its sorting returned, only when the job of
\* the current request finished without error, and the archive read is the
\* one that job wrote; an archive an earlier request left behind is never
\* returned for a request whose own job failed.
C6_ArchiveTrustedOnlyAfterOwnJob ==
    ( /\ InCall
      /\ hither # NoFrame
      /\ "read" \in Events )
    => /\ job # NoFrame
       /\ job.status = "finished"
       /\ hither.archive_req = nreq
       /\ Returned => ret.sorting = hither.sorting

\* A request whose job failed while an earlier request's archive lies in its
\* output location.
C6_Witness ==
    /\ Raised
    /\ job # NoFrame
    /\ job.status = "error"
    /\ host_archive_path(hither) \in DOMAIN files
    /\ files[host_archive_path(hither)].req < nreq
    /\ "read" \notin Events

\* C7: with raise_error false and a backend that fails during its run, on the
\* local path and on the container path, no exception leaves run_sorter: the
\* call returns a sorting, which may be empty.
C7_NoRaiseWhenRaiseErrorFalse ==
    ( /\ pc = "done"
      /\ BackendFailed
      /\ ~args.raise_error )
    => ret.kind = "return"

C7_Witness ==
    /\ Returned
    /\ BackendFailed
    /\ ~args.raise_error
    /\ args.use_docker
    /\ ret.sorting.empty

C7_WitnessLocal ==
    /\ Returned
    /\ BackendFailed
    /\ ~args.raise_error
    /\ ~args.use_docker
    /\ ret.sorting.empty

\* C8: with raise_error true and a backend that fails during its run,
\* run_sorter ends with ExecutionError or ResultMissing and returns no
\* sorting, and nothing found in the output location is parsed into a result
\* for the request: neither the artifacts of the folder nor the archive.
C8_RaiseWhenRaiseErrorTrue ==
    ( /\ InCall
      /\ BackendFailed
      /\ args.raise_error )
    => /\ "get_result:read" \notin Events
       /\ "read" \notin Events
       /\ pc = "done" =>
            /\ ret.kind = "raise"
            /\ ErrorKind(ret.exc) \in {"ExecutionError", "ResultMissing"}

\* A failed run with raise_error set, in a location where an earlier request
\* left its artifacts or its archive.
C8_Witness ==
    /\ Raised
    /\ BackendFailed
    /\ args.raise_error
    /\ \E p \in DOMAIN files :
         /\ files[p].req < nreq
         /\ \/ IsUnder(p, local_path(local, job.mounts, sorter.output_folder))
            \/ (hither # NoFrame /\ p = host_archive_path(hither))

C10_MountsAndArchivePath ==
    ( /\ InCall
      /\ job # NoFrame
      /\ job.status \in {"running", "finished"} )
    => /\ job.mounts =
            { [source |-> InputDirectory, target |-> <<"/", "input">>,
               read_only |-> TRUE],
              [source |-> hither.output_folder, target |-> <<"/", "output">>,
               read_only |-> FALSE] }
       /\ job.kwargs.input_directory = <<"/", "input">>
       /\ job.kwargs.output_directory = <<"/", "output">>
       /\ job_archive_path(job.kwargs) = <<"/", "output", "sorting_docker.npz">>
       /\ container_to_host(job.mounts, job_archive_path(job.kwargs))
            = hither.output_folder \o <<"sorting_docker.npz">>
       /\ host_archive_path(hither)
            = container_to_host(job.mounts, job_archive_path(job.kwargs))
       /\ "read" \in Events => hither.archive_req = nreq
       /\ (job.status = "finished" /\ "rmtree" \notin Events) =>
            /\ host_archive_path(hither) \in DOMAIN files
            /\ files[host_archive_path(hither)].req = nreq

C10_Witness ==
    /\ pc = "hither_181"
    /\ job.status = "finished"
    /\ "read" \in Events
    /\ args.output_folder = None

\* The class a registered backend argument stands for.
ClassOf(x) == IF x.kind = "str" THEN sorter_dict[x.val] ELSE x.val

\* The same backend given the other way: the reference for an identifier,
\* the identifier for a reference.
OtherForm(x) ==
    IF x.kind = "str"
    THEN [kind |-> "cls", val |-> sorter_dict[x.val]]
    ELSE [kind |-> "str", val |-> sorter_name_of[x.val]]

\* C11: for a registered backend and equal options, run_sorter called with
\* the identifier string and called with the class take the same launcher
\* with the same sorter name, resolve to the same class, and every step after
\* the resolution works on the resolved name and class alone: the job, the
\* lifecycle instance and its output folder are those of the resolved
\* backend, whichever form the caller gave.
C11_IdentifierAndReferenceAgree ==
    ( InCall /\ Registered(args.sorter_name_or_class) )
    => LET other == [args EXCEPT !.sorter_name_or_class =
                                    OtherForm(args.sorter_name_or_class)]
           cls   == ClassOf(args.sorter_name_or_class)
       IN  /\ run_sorter_route(args, HAVE_DOCKER) = run_sorter_route(other, HAVE_DOCKER)
           /\ local_resolve(args.sorter_name_or_class)
                = local_resolve(other.sorter_name_or_class)
           /\ hither # NoFrame =>
                /\ hither = [hither_frame_of_run_sorter(other, sorter_name_of[cls])
                               EXCEPT !.output_folder = hither.output_folder,
                                      !.sorting = hither.sorting,
                                      !.archive_req = hither.archive_req]
                /\ hither.output_folder \in
                     {args.output_folder, hither_output_folder(
                        hither_frame_of_run_sorter(other, sorter_name_of[cls]))}
           /\ job # NoFrame => job.kwargs.sorter_name = sorter_name_of[cls]
           /\ local # NoFrame =>
                /\ local_resolve(local.sorter_name_or_class).cls = cls
                /\ local.SorterClass \in {"", cls}
                /\ (local.ctx = "host") =>
                     [local EXCEPT !.SorterClass = "", !.sortingextractor = NoRet,
                                   !.sorter_name_or_class = other.sorter_name_or_class]
                       = local_frame_of_run_sorter(other)
           /\ sorter # NoFrame =>
                /\ sorter.cls = cls
                /\ sorter.output_folder = sorter_output_folder(cls, local)

\* A call by class that a job in the container completed.
C11_Witness ==
    /\ Returned
    /\ args.sorter_name_or_class = [kind |-> "cls", val |-> "Mountainsort4Sorter"]
    /\ args.use_docker
    /\ job.status = "finished"
    /\ ~ret.sorting.empty

\* A call by identifier that the local launcher completed.
C11_WitnessLocal ==
    /\ Returned
    /\ args.sorter_name_or_class = [kind |-> "str", val |-> "mountainsort4"]
    /\ ~args.use_docker
    /\ ~ret.sorting.empty

-----------------------------------------------------------------------------
(* get_default_params, get_params_description, get_sorter_description.       *)
(* A session of such calls: args is the call in progress, ret its outcome    *)
(* and trace the completed calls in order.                                   *)

MaxDescribeCalls == 2

DescribeOps == {"get_default_params", "get_params_description", "get_sorter_description"}

DescribeInputs ==
    { [kind |-> "str", val |-> "mountainsort4"],
      [kind |-> "str", val |-> "kilosort2"],
      [kind |-> "str", val |-> "nosuch"],
      [kind |-> "cls", val |-> "Mountainsort4Sorter"],
      [kind |-> "cls", val |-> "Kilosort2Sorter"],
      [kind |-> "cls", val |-> "NotASorter"] }

InitDescribe ==
    /\ HAVE_DOCKER \in BOOLEAN
    /\ dirs = HostRoot
    /\ files = << >>
    /\ nreq = 0
    /\ args = NoFrame
    /\ pc = "idle"
    /\ hither = NoFrame
    /\ job = NoFrame
    /\ local = NoFrame
    /\ sorter = NoFrame
    /\ ret = NoRet
    /\ made = {}
    /\ trace = << >>

DescribeCall(op, x) ==
    /\ pc = "idle"
    /\ nreq < MaxDescribeCalls
    /\ nreq' = nreq + 1
    /\ args' = [status |-> "called", op |-> op, sorter_name_or_class |-> x]
    /\ pc' = op
    /\ ret' = NoRet
    /\ UNCHANGED <<HAVE_DOCKER, dirs, files, hither, job, local, sorter, made, trace>>

\* The if / elif / else that all three functions open with: the dictionary
\* lookup raises KeyError at str_line, the else branch ValueError at else_line.
describe_resolve(x, str_line, else_line) ==
    IF x.kind = "str"
    THEN IF x.val \in DOMAIN sorter_dict
         THEN [ok |-> TRUE, cls |-> sorter_dict[x.val]]
         ELSE [ok |-> FALSE, exc |-> Exc("KeyError", str_line)]
    ELSE IF InFullList(x.val)
         THEN [ok |-> TRUE, cls |-> x.val]
         ELSE [ok |-> FALSE, exc |-> Exc("ValueError", else_line)]

\* The function's outcome: the class attribute it returns, or the exception.
describe_outcome(r, attr) ==
    IF r.ok
    THEN [kind |-> "return", cls |-> r.cls, attr |-> attr]
    ELSE [kind |-> "raise", exc |-> r.exc]

describe_done(outcome) ==
    /\ ret' = outcome
    /\ trace' = Append(trace, [op |-> args.op,
                               sorter_name_or_class |-> args.sorter_name_or_class,
                               ret |-> outcome])
    /\ pc' = "done"
    /\ UNCHANGED <<HAVE_DOCKER, dirs, files, nreq, args, hither, job, local, sorter, made>>

get_default_params ==
    /\ pc = "get_default_params"
    /\ describe_done(describe_outcome(
           describe_resolve(args.sorter_name_or_class, 296, 300), "default_params"))

get_params_description ==
    /\ pc = "get_params_description"
    /\ describe_done(describe_outcome(
           describe_resolve(args.sorter_name_or_class, 320, 324), "params_description"))

get_sorter_description ==
    /\ pc = "get_sorter_description"
    /\ describe_done(describe_outcome(
           describe_resolve(args.sorter_name_or_class, 345, 349), "sorter_description"))

\* The caller takes the outcome; the next call may start.
DescribeFinish ==
    /\ pc = "done"
    /\ pc' = "idle"
    /\ args' = NoFrame
    /\ ret' = NoRet
    /\ UNCHANGED <<HAVE_DOCKER, dirs, files, nreq, hither, job, local, sorter, made, trace>>

NextDescribe ==
    \/ \E op \in DescribeOps, x \in DescribeInputs : DescribeCall(op, x)
    \/ get_default_params
    \/ get_params_description
    \/ get_sorter_description
    \/ DescribeFinish

SpecDescribe == InitDescribe /\ [][NextDescribe]_vars

\* The completed calls whose backend argument does not resolve.
UnregisteredCalls ==
    { i \in DOMAIN trace : ~Registered(trace[i].sorter_name_or_class) }

\* C12: every describing operation fails for an unregistered backend, and the
\* failures are of one kind whether the argument was an unregistered string or
\* an unregistered reference: no two such calls end with different exceptions.
C12_OneKindForBothShapes ==
    /\ \A i \in UnregisteredCalls : trace[i].ret.kind = "raise"
    /\ \A i, j \in UnregisteredCalls :
          trace[i].ret.exc.type = trace[j].ret.exc.type

-----------------------------------------------------------------------------
(* The files of one output folder in detail: what Mountainsort4Sorter._run   *)
(* writes at lines 131-135 and what get_result_from_folder reads back.       *)
(* A sorting is its unit ids and, per unit, the sequence of its event times. *)
(* firings.mda holds one column per event, ordered by time; samplerate.txt   *)
(* holds the sampling rate as text, a sequence of characters.  A sampling    *)
(* rate is a Python int or float, kept here in tenths.                       *)

MaxTrainLen == 2

UnitLabels == {0, 1}

SpikeTimes == {10, 20}

Trains == UNION { [1..n -> SpikeTimes] : n \in 0..MaxTrainLen }

Sortings == UNION { [U -> Trains] : U \in SUBSET UnitLabels }

SampleRates ==
    { [type |-> "int",   tenths |-> 300000],
      [type |-> "float", tenths |-> 300000],
      [type |-> "float", tenths |-> 244141] }

DigitChars == <<"0", "1", "2", "3", "4", "5", "6", "7", "8", "9">>

RECURSIVE Digits(_)
\* str(n) of a natural number
Digits(n) ==
    IF n < 10 THEN <<DigitChars[n + 1]>>
    ELSE Digits(n \div 10) \o <<DigitChars[(n % 10) + 1]>>

IsDigit(c) == \E d \in 1..10 : DigitChars[d] = c

DigitValue(c) == (CHOOSE d \in 1..10 : DigitChars[d] = c) - 1

RECURSIVE DigitsValue(_)
DigitsValue(s) ==
    IF s = <<>> THEN 0
    ELSE 10 * DigitsValue(SubSeq(s, 1, Len(s) - 1)) + DigitValue(s[Len(s)])

\* '{:.0f}'.format(samplerate): the text without its fraction.
format_samplerate_rounded(S) == Digits(S.tenths \div 10)

\* Line 135, '{}'.format(samplerate): an int prints its digits, a float its
\* digits, a point and its fraction.
format_samplerate(S) ==
    IF S.type = "int"
    THEN Digits(S.tenths \div 10)
    ELSE Digits(S.tenths \div 10) \o <<".">> \o Digits(S.tenths % 10)

\* Line 145, float(text), for texts of digits with at most one point and one
\* digit after it; anything else drawn here is not a number.
float_of(text) ==
    LET points == {i \in DOMAIN text : text[i] = "."}
        whole  == IF points = {} THEN text
                  ELSE SubSeq(text, 1, (CHOOSE i \in points : TRUE) - 1)
        frac   == IF points = {} THEN <<>>
                  ELSE SubSeq(text, (CHOOSE i \in points : TRUE) + 1, Len(text))
        wellformed ==
            /\ Cardinality(points) <= 1
            /\ Len(whole) + Len(frac) >= 1
            /\ Len(frac) <= 1
            /\ \A i \in DOMAIN whole : IsDigit(whole[i])
            /\ \A i \in DOMAIN frac : IsDigit(frac[i])
    IN  IF wellformed
        THEN [ok |-> TRUE,
              value |-> [type |-> "float",
                         tenths |-> 10 * DigitsValue(whole) + DigitsValue(frac)]]
        ELSE [ok |-> FALSE, exc |-> Exc("ValueError", 145)]

\* The events of a sorting as columns of firings.mda.
Columns(R) ==
    UNION { { [time |-> R[u][i], label |-> u] : i \in DOMAIN R[u] } : u \in DOMAIN R }

\* How many times the sorting holds the event of column c.
ColumnCount(R, c) == Cardinality({i \in DOMAIN R[c.label] : R[c.label][i] = c.time})

\* The columns still to place, each with its number of occurrences.
ColumnBag(R) == [c \in Columns(R) |-> ColumnCount(R, c)]

TakeColumn(B, c) ==
    [d \in {e \in DOMAIN B : e # c \/ B[e] > 1} |-> IF d = c THEN B[d] - 1 ELSE B[d]]

RECURSIVE TimeOrdered(_)
\* np.argsort(all_times) is not a stable sort: every order of the columns
\* that is ascending in time.
TimeOrdered(B) ==
    IF DOMAIN B = {} THEN { <<>> }
    ELSE LET earliest == {c \in DOMAIN B : \A d \in DOMAIN B : c.time <= d.time}
         IN  UNION { { <<c>> \o s : s \in TimeOrdered(TakeColumn(B, c)) } : c \in earliest }

\* Line 131, MdaSortingExtractor.write_sorting: the contents firings.mda may get.
write_sorting(R) == { [kind |-> "mda", cols |-> cols] : cols \in TimeOrdered(ColumnBag(R)) }

\* The event times of unit u in the order of the columns.
unit_spike_train(cols, u) ==
    LET own == SelectSeq(cols, LAMBDA c : c.label = u)
    IN  [i \in DOMAIN own |-> own[i].time]

\* Line 147, MdaSortingExtractor(file_path, sampling_frequency): the unit ids
\* are the labels that occur in the columns.
MdaSortingExtractor(content, samplerate) ==
    IF content.kind # "mda"
    THEN [ok |-> FALSE, exc |-> Exc("TypeError", 147)]
    ELSE LET unit_ids == {content.cols[i].label : i \in DOMAIN content.cols}
         IN  [ok |-> TRUE,
              sorting |-> [unit_ids |-> unit_ids,
                           train |-> [u \in unit_ids |-> unit_spike_train(content.cols, u)],
                           sampling_frequency |-> samplerate]]

\* get_result_from_folder with the sampling rate taken as 30000.0 when
\* samplerate.txt is missing.
read_result_folder_defaulting(fs, folder) ==
    LET mda == joinpath(folder, "firings.mda")
        txt == joinpath(folder, "samplerate.txt")
        rate == IF txt \in DOMAIN fs THEN float_of(fs[txt].chars)
                ELSE [ok |-> TRUE, value |-> [type |-> "float", tenths |-> 300000]]
    IN  IF ~rate.ok THEN rate
        ELSE IF mda \notin DOMAIN fs
        THEN [ok |-> FALSE, exc |-> Exc("FileNotFoundError", 147)]
        ELSE MdaSortingExtractor(fs[mda], rate.value)

\* Lines 137-148, get_result_from_folder on the detailed files.
read_result_folder(fs, folder) ==
    LET mda == joinpath(folder, "firings.mda")
        txt == joinpath(folder, "samplerate.txt")
    IN  IF txt \notin DOMAIN fs
        THEN [ok |-> FALSE, exc |-> Exc("FileNotFoundError", 144)]
        ELSE LET rate == float_of(fs[txt].chars)
             IN  IF ~rate.ok THEN rate
                 ELSE IF mda \notin DOMAIN fs
                 THEN [ok |-> FALSE, exc |-> Exc("FileNotFoundError", 147)]
                 ELSE MdaSortingExtractor(fs[mda], rate.value)

\* The output folder of the run.
ResultFolder == absolute(<<"out">>)

Absent == [kind |-> "absent"]

\* What the folder may hold before the run: nothing, a file that is no MDA
\* array or no number, or the files of an earlier run.
StaleFirings ==
    { Absent, [kind |-> "garbage"],
      [kind |-> "mda", cols |-> << [time |-> 10, label |-> 0] >>] }

StaleSamplerates ==
    { Absent, [kind |-> "text", chars |-> <<"x">>],
      [kind |-> "text", chars |-> format_samplerate([type |-> "float", tenths |-> 300000])] }

FolderFiles(f, t) ==
    LET mda == joinpath(ResultFolder, "firings.mda")
        txt == joinpath(ResultFolder, "samplerate.txt")
    IN  [q \in {p \in {mda, txt} : IF p = mda THEN f # Absent ELSE t # Absent}
           |-> IF q = mda THEN f ELSE t]

InitBridge ==
    /\ HAVE_DOCKER \in BOOLEAN
    /\ dirs = mkdir(HostRoot, ResultFolder)
    /\ \E f \in StaleFirings, t \in StaleSamplerates : files = FolderFiles(f, t)
    /\ nreq = 0
    /\ \E R \in Sortings, S \in SampleRates :
          args = [status |-> "run", sorting |-> R, samplerate |-> S]
    /\ pc = "run_131"
    /\ hither = NoFrame
    /\ job = NoFrame
    /\ local = NoFrame
    /\ sorter = NoFrame
    /\ ret = NoRet
    /\ made = {}
    /\ trace = << >>

\* Line 131: the sorting goes to firings.mda.
run_131 ==
    /\ pc = "run_131"
    /\ \E content \in write_sorting(args.sorting) :
          files' = write_file(files, joinpath(ResultFolder, "firings.mda"), content)
    /\ trace' = Append(trace, "firings.mda")
    /\ pc' = "run_134"
    /\ UNCHANGED <<HAVE_DOCKER, dirs, nreq, args, hither, job, local, sorter, ret, made>>

\* Line 134: open(samplerate_fname, 'w') leaves an empty file.
run_134 ==
    /\ pc = "run_134"
    /\ files' = write_file(files, joinpath(ResultFolder, "samplerate.txt"),
                           [kind |-> "text", chars |-> <<>>])
    /\ pc' = "run_135"
    /\ UNCHANGED <<HAVE_DOCKER, dirs, nreq, args, hither, job, local, sorter, ret, made, trace>>

\* Line 135: the sampling rate is written as text; _run returns.
run_135 ==
    /\ pc = "run_135"
    /\ files' = write_file(files, joinpath(ResultFolder, "samplerate.txt"),
                           [kind |-> "text", chars |-> format_samplerate(args.samplerate)])
    /\ trace' = Append(trace, "samplerate.txt")
    /\ pc' = "run_returned"
    /\ UNCHANGED <<HAVE_DOCKER, dirs, nreq, args, hither, job, local, sorter, ret, made>>

\* _run raises before line 131, or a write fails: the folder stays as it is.
run_raises ==
    /\ pc \in {"run_131", "run_134", "run_135"}
    /\ pc' = "run_raised"
    /\ UNCHANGED <<HAVE_DOCKER, dirs, files, nreq, args, hither, job, local, sorter, ret,
                   made, trace>>

\* Lines 137-148 on the folder as the run left it.
read_result ==
    /\ pc \in {"run_returned", "run_raised"}
    /\ LET r == read_result_folder(files, ResultFolder)
       IN  ret' = IF r.ok THEN [kind |-> "return", sorting |-> r.sorting]
                          ELSE [kind |-> "raise", exc |-> r.exc]
    /\ trace' = Append(trace, "get_result_from_folder")
    /\ pc' = "done"
    /\ UNCHANGED <<HAVE_DOCKER, dirs, files, nreq, args, hither, job, local, sorter, made>>

NextBridge ==
    \/ run_131
    \/ run_134
    \/ run_135
    \/ run_raises
    \/ read_result

SpecBridge == InitBridge /\ [][NextBridge]_vars

\* The same events, each as many times.
SameEvents(s, t) ==
    \A x \in SpikeTimes :
       Cardinality({i \in DOMAIN s : s[i] = x}) = Cardinality({i \in DOMAIN t : t[i] = x})

\* The folder was read after the run wrote both files.
ReadAfterFullWrite ==
    /\ pc = "done"
    /\ trace = <<"firings.mda", "samplerate.txt", "get_result_from_folder">>

\* What was read is what the run was given.
ReadsBackWhatWasWritten ==
    /\ ret.kind = "return"
    /\ ret.sorting.unit_ids = DOMAIN args.sorting
    /\ \A u \in DOMAIN args.sorting :
          SameEvents(ret.sorting.train[u], args.sorting[u])
    /\ ret.sorting.sampling_frequency.tenths = args.samplerate.tenths

\* C13 as stated: for every result R and sampling rate S, reading the folder
\* into which the run wrote R and S returns the unit labels of R, the events
\* of R per unit and the sampling rate S.
C13_RoundTripOfEveryResult == ReadAfterFullWrite => ReadsBackWhatWasWritten

\* C13 as amended: the same for every result R whose units each have at
\* least one event.
C13_RoundTripOfResultsWithEvents ==
    ( ReadAfterFullWrite /\ \A u \in DOMAIN args.sorting : args.sorting[u] # <<>> )
    => ReadsBackWhatWasWritten

\* Two units with events, one of them out of time order, and a sampling rate
\* with a fraction, read back.
C13_Witness ==
    /\ ReadAfterFullWrite
    /\ args.sorting = (0 :> <<20, 10>> @@ 1 :> <<10>>)
    /\ args.samplerate = [type |-> "float", tenths |-> 244141]
    /\ ret.kind = "return"
    /\ ret.sorting.train[0] = <<10, 20>>

\* What the folder holds when it is read.
HasArtifact == joinpath(ResultFolder, "firings.mda") \in DOMAIN files

HasSidecar == joinpath(ResultFolder, "samplerate.txt") \in DOMAIN files

ArtifactIsArray == files[joinpath(ResultFolder, "firings.mda")].kind = "mda"

\* The sidecar's text is a number: some digit, and nothing but digits and a point.
SidecarIsNumber ==
    LET chars == files[joinpath(ResultFolder, "samplerate.txt")].chars
    IN  /\ \E i \in DOMAIN chars : IsDigit(chars[i])
        /\ \A i \in DOMAIN chars : IsDigit(chars[i]) \/ chars[i] = "."

FolderComplete ==
    /\ HasArtifact /\ ArtifactIsArray
    /\ HasSidecar /\ SidecarIsNumber

\* C14: reading a folder that lacks firings.mda, lacks samplerate.txt, or holds
\* one that cannot be parsed ends with an exception raised by the reading
\* (the ResultMissing outcome) and never with a result; a result is returned
\* only from a folder holding both, and carries the units of the one and the
\* sampling rate of the other.
C14_IncompleteFolderGivesNoResult ==
    pc = "done" =>
       /\ ~FolderComplete =>
             /\ ret.kind = "raise"
             /\ ret.exc.line \in {144, 145, 147}
       /\ ret.kind = "return" =>
             /\ FolderComplete
             /\ ret.sorting.unit_ids =
                  { c.label : c \in { files[joinpath(ResultFolder, "firings.mda")].cols[i] :
                       i \in DOMAIN files[joinpath(ResultFolder, "firings.mda")].cols } }
             /\ Digits(ret.sorting.sampling_frequency.tenths \div 10)
                  = SelectSeq(files[joinpath(ResultFolder, "samplerate.txt")].chars, IsDigit)
                \/ Digits(ret.sorting.sampling_frequency.tenths)
                  = SelectSeq(files[joinpath(ResultFolder, "samplerate.txt")].chars, IsDigit)

\* The run wrote firings.mda and failed before samplerate.txt; the folder held
\* nothing before: reading it raises.
C14_Witness ==
    /\ pc = "done"
    /\ trace = <<"firings.mda", "get_result_from_folder">>
    /\ HasArtifact /\ ArtifactIsArray
    /\ ~HasSidecar
    /\ ret.kind = "raise"

\* An earlier run's samplerate.txt and no firings.mda: reading raises.
C14_WitnessSidecarAlone ==
    /\ pc = "done"
    /\ ~HasArtifact
    /\ HasSidecar /\ SidecarIsNumber
    /\ ret.kind = "raise"

\* A sidecar that holds no number, next to a good firings.mda: reading raises.
C14_WitnessUnparsable ==
    /\ pc = "done"
    /\ HasArtifact /\ ArtifactIsArray
    /\ HasSidecar /\ ~SidecarIsNumber
    /\ ret.kind = "raise"

-----------------------------------------------------------------------------
(* _run_sorter_local with a grouping property: the recording is split into   *)
(* one partition per group, each partition is run into its own folder and    *)
(* the results read from the folders are merged.  The backend is a stub that *)
(* finds unit 0 at time 10 in every group it is given, and fails on the      *)
(* groups it is told to fail on.                                             *)

CpuCount == 2

\* The value of an option the caller did not pass.
Omitted == "<omitted>"

\* Lines 39-41: the defaults of run_sorter's options.
run_sorter_defaults ==
    [parallel |-> FALSE, raise_error |-> TRUE, n_jobs |-> -1, joblib_backend |-> "loky"]

\* The recordings drawn: the groups of their channels, in channel order.
GroupLists == { <<"A", "B">>, <<"B", "A">>, <<"A", "B", "C">> }

GroupedInputs ==
    { [status |-> "called", groups |-> gs, grouping_property |-> gp, failing |-> f,
       parallel |-> p, n_jobs |-> n, joblib_backend |-> b, raise_error |-> r] :
         gs \in GroupLists, gp \in {"", "group"},
         f \in { {}, {"A"}, {"B"}, {"A", "B"} },
         p \in BOOLEAN, n \in {-1, 1, 2},
         b \in {Omitted, "loky", "multiprocessing", "threading"}, r \in BOOLEAN }

\* Lines 39-41: the pool backend in force.
joblib_backend_of(a) ==
    IF a.joblib_backend = Omitted THEN run_sorter_defaults.joblib_backend
    ELSE a.joblib_backend

\* n_jobs = -1 takes every core.
workers(n_jobs) == IF n_jobs = -1 THEN CpuCount ELSE n_jobs

\* What the stub backend finds in a partition.
StubSorting == (0 :> <<10>>)

StubSamplerate == [type |-> "float", tenths |-> 300000]

\* Lines 245-246 without grouping_property among the constructor's arguments.
constructor_groups_ungrouped(a) == << "" >>

\* Lines 245-246: the constructor is given grouping_property; without one the
\* whole recording is the only partition.
constructor_groups(a) ==
    IF a.grouping_property = "" THEN << "" >> ELSE a.groups

\* BaseSorter.__init__: one folder per partition under the output folder,
\* the output folder itself when the recording is not split.
partition_folder(a, i) ==
    IF a.grouping_property = "" THEN ResultFolder
    ELSE joinpath(ResultFolder, DigitChars[i])

partitions_of(a) ==
    [i \in DOMAIN constructor_groups(a) |->
        [group |-> constructor_groups(a)[i],
         folder |-> partition_folder(a, i),
         status |-> "pending"]]

InitGrouped ==
    /\ HAVE_DOCKER \in BOOLEAN
    /\ dirs = HostRoot
    /\ files = << >>
    /\ nreq = 0
    /\ args \in GroupedInputs
    /\ pc = "grouped_245"
    /\ hither = NoFrame
    /\ job = NoFrame
    /\ local = NoFrame
    /\ sorter = NoFrame
    /\ ret = NoRet
    /\ made = {}
    /\ trace = << >>

\* Lines 245-246: the instance, its partitions and their folders.
grouped_245 ==
    /\ pc = "grouped_245"
    /\ sorter' = [cls |-> "Mountainsort4Sorter",
                  output_folder |-> ResultFolder,
                  state |-> "CREATED",
                  partitions |-> partitions_of(args),
                  errors |-> {}]
    /\ dirs' = UNION ({dirs} \cup
                      { mkdir(dirs, partitions_of(args)[i].folder) :
                          i \in DOMAIN partitions_of(args) })
    /\ pc' = "grouped_247"
    /\ UNCHANGED <<HAVE_DOCKER, files, nreq, args, hither, job, local, ret, made, trace>>

\* Line 247: set_params with no override.
grouped_247 ==
    /\ pc = "grouped_247"
    /\ sorter' = [sorter EXCEPT !.state = "PARAMS_BOUND"]
    /\ pc' = "grouped_248"
    /\ UNCHANGED <<HAVE_DOCKER, dirs, files, nreq, args, hither, job, local, ret, made, trace>>

\* Line 248: sorter.run(...) checks the pool backend before it runs anything.
grouped_248 ==
    /\ pc = "grouped_248"
    /\ IF args.parallel /\ ~compatible_with_parallel[joblib_backend_of(args)]
       THEN /\ ret' = [kind |-> "raise", exc |-> Exc("UnsupportedConcurrencyModel", 248)]
            /\ pc' = "done"
            /\ UNCHANGED sorter
       ELSE /\ sorter' = [sorter EXCEPT !.state = "RUNNING"]
            /\ pc' = "partitions"
            /\ UNCHANGED ret
    /\ UNCHANGED <<HAVE_DOCKER, dirs, files, nreq, args, hither, job, local, made, trace>>

Pending(parts) == {i \in DOMAIN parts : parts[i].status = "pending"}

Running(parts) == {i \in DOMAIN parts : parts[i].status = "running"}

\* How many partitions may run at once: one after the other without
\* parallel, as many as the pool has workers with it.
pool_size(a) == IF a.parallel THEN workers(a.n_jobs) ELSE 1

\* A partition is handed to the pool, in the order of the list.
partition_start(i) ==
    /\ pc = "partitions"
    /\ i \in Pending(sorter.partitions)
    /\ \A j \in Pending(sorter.partitions) : i <= j
    /\ Cardinality(Running(sorter.partitions)) < pool_size(args)
    /\ sorter' = [sorter EXCEPT !.partitions[i].status = "running"]
    /\ trace' = Append(trace, [ev |-> "start", group |-> sorter.partitions[i].group])
    /\ UNCHANGED <<HAVE_DOCKER, dirs, files, nreq, args, hither, job, local, ret, made, pc>>

\* The stub backend ends on a partition: it raises on a group it fails on and
\* writes nothing, otherwise it writes its two files (lines 131-135).  With
\* raise_error the failure leaves sorter.run as an exception (line 248).
partition_end(i) ==
    /\ pc = "partitions"
    /\ i \in Running(sorter.partitions)
    /\ LET p == sorter.partitions[i] IN
       IF p.group \in args.failing
       THEN /\ UNCHANGED files
            /\ trace' = Append(trace, [ev |-> "failed", group |-> p.group])
            /\ IF local_raise_error(args)
               THEN /\ sorter' = [sorter EXCEPT !.partitions[i].status = "failed",
                                                !.errors = @ \cup {p.group},
                                                !.state = "FAILED"]
                    /\ ret' = [kind |-> "raise", exc |-> Exc("ExecutionError", 248)]
                    /\ pc' = "done"
               ELSE /\ sorter' = [sorter EXCEPT !.partitions[i].status = "failed",
                                                !.errors = @ \cup {p.group}]
                    /\ UNCHANGED <<ret, pc>>
       ELSE /\ \E content \in write_sorting(StubSorting) :
                  files' = write_file(
                              write_file(files, joinpath(p.folder, "firings.mda"), content),
                              joinpath(p.folder, "samplerate.txt"),
                              [kind |-> "text", chars |-> format_samplerate(StubSamplerate)])
            /\ trace' = Append(trace, [ev |-> "finished", group |-> p.group])
            /\ sorter' = [sorter EXCEPT !.partitions[i].status = "finished"]
            /\ UNCHANGED <<ret, pc>>
    /\ UNCHANGED <<HAVE_DOCKER, dirs, nreq, args, hither, job, local, made>>

\* Line 248 returns when every partition has ended.
grouped_248_returns ==
    /\ pc = "partitions"
    /\ Pending(sorter.partitions) = {}
    /\ Running(sorter.partitions) = {}
    /\ pc' = "grouped_249"
    /\ UNCHANGED <<HAVE_DOCKER, dirs, files, nreq, args, hither, job, local, sorter, ret,
                   made, trace>>

\* The units read from one partition's folder, each with the partition's group.
partition_units(fs, p) ==
    LET r == read_result_folder(fs, p.folder)
    IN  IF p.status = "finished" /\ r.ok
        THEN { [group |-> p.group, unit |-> u, train |-> r.sorting.train[u]] :
                 u \in r.sorting.unit_ids }
        ELSE {}

\* A merge that keeps one unit per label: the one of the first partition that
\* has it.
merge_results_by_label(fs, parts) ==
    LET all == UNION { partition_units(fs, parts[i]) : i \in DOMAIN parts }
    IN  { x \in all : \A y \in all : y.unit = x.unit => y.group = x.group
                                      \/ \E i, j \in DOMAIN parts :
                                            /\ i < j
                                            /\ parts[i].group = x.group
                                            /\ parts[j].group = y.group }

\* BaseSorter.get_result: the union of the partitions' units.
merge_results(fs, parts) ==
    UNION { partition_units(fs, parts[i]) : i \in DOMAIN parts }

\* Line 249: the results of the partitions that ended well are read and
\* merged; the failures that were not raised stay recorded with the result.
grouped_249 ==
    /\ pc = "grouped_249"
    /\ ret' = [kind |-> "return",
               sorting |-> [units |-> merge_results(files, sorter.partitions),
                            errors |-> sorter.errors]]
    /\ sorter' = [sorter EXCEPT !.state = IF sorter.errors = {} THEN "COMPLETED"
                                          ELSE "FAILED"]
    /\ pc' = "done"
    /\ UNCHANGED <<HAVE_DOCKER, dirs, files, nreq, args, hither, job, local, made, trace>>

\* The places a partition can have in the list.
PartitionIndices == UNION { DOMAIN gs : gs \in GroupLists }

NextGrouped ==
    \/ grouped_245
    \/ grouped_247
    \/ grouped_248
    \/ \E i \in PartitionIndices : partition_start(i)
    \/ \E i \in PartitionIndices : partition_end(i)
    \/ grouped_248_returns
    \/ grouped_249

SpecGrouped == InitGrouped /\ [][NextGrouped]_vars

\* The call splits the recording by group.
Grouped == args.grouping_property # ""

GroupsOf(a) == {a.groups[i] : i \in DOMAIN a.groups}

\* What the stub backend finds in the groups it does not fail on: for a
\* recording and a set of failing groups, one unit 0 with an event at time 10
\* per group.  Neither the pool nor the order of completion is an argument.
StubUnits(groups, failing) ==
    { [group |-> g, unit |-> 0, train |-> <<10>>] : g \in groups \ failing }

\* The groups in the order in which their partitions ended.
IsEnd(e) == e.ev \in {"finished", "failed"}

CompletionOrder ==
    LET ends == SelectSeq(trace, IsEnd) IN [i \in DOMAIN ends |-> ends[i].group]

\* C15: for a recording split into N >= 2 groups and the deterministic stub
\* backend, the merged result of a run that returns is the set of units the
\* stub finds in the groups, whatever the order in which the partitions
\* ended, with parallel and without, and for every worker count.
C15_MergeIndependentOfOrderAndPool ==
    ( pc = "done" /\ Grouped /\ ret.kind = "return" )
    => ret.sorting.units = StubUnits(GroupsOf(args), args.failing)

\* A parallel run over A, B whose partition B ended before partition A.
C15_Witness ==
    /\ pc = "done" /\ Grouped /\ ret.kind = "return"
    /\ args.parallel
    /\ args.groups = <<"A", "B">>
    /\ CompletionOrder = <<"B", "A">>
    /\ Cardinality(ret.sorting.units) = 2

\* C16: units with the same label in different partitions stay distinct in
\* the merged result, each tagged with its group: when no partition fails the
\* merged result has one unit 0 per group, so for groups A and B exactly two
\* units, tagged A and B.
C16_SameLabelStaysDistinct ==
    ( pc = "done" /\ Grouped /\ ret.kind = "return" /\ args.failing = {} )
    => /\ Cardinality(ret.sorting.units) = Len(args.groups)
       /\ {x.group : x \in ret.sorting.units} = GroupsOf(args)
       /\ \A x \in ret.sorting.units : x.unit = 0 /\ x.train = <<10>>
       /\ GroupsOf(args) = {"A", "B"} =>
             ret.sorting.units = { [group |-> "A", unit |-> 0, train |-> <<10>>],
                                   [group |-> "B", unit |-> 0, train |-> <<10>>] }

\* The scenario: groups A and B, a parallel run, two units.
C16_Witness ==
    /\ pc = "done" /\ Grouped /\ ret.kind = "return"
    /\ args.parallel
    /\ args.groups = <<"A", "B">>
    /\ args.failing = {}
    /\ {x.group : x \in ret.sorting.units} = {"A", "B"}

\* The run was not turned away for its pool backend.
PoolAdmitted == ~(ret.kind = "raise" /\ ret.exc.type = "UnsupportedConcurrencyModel")

\* C17: when some partition fails, a run with raise_error fails as a whole
\* with the backend's error and returns no result; a run without raise_error
\* returns the units of exactly the partitions that ended well, none of a
\* failed partition, and every failed partition's failure is recorded.
C17_FailingPartition ==
    ( pc = "done" /\ Grouped /\ PoolAdmitted /\ GroupsOf(args) \cap args.failing # {} )
    => IF args.raise_error
       THEN /\ ret.kind = "raise"
            /\ ErrorKind(ret.exc) = "ExecutionError"
            /\ sorter.errors # {}
       ELSE /\ ret.kind = "return"
            /\ {x.group : x \in ret.sorting.units} = GroupsOf(args) \ args.failing
            /\ \A i \in DOMAIN sorter.partitions :
                  sorter.partitions[i].status = "finished" =>
                     \E x \in ret.sorting.units : x.group = sorter.partitions[i].group
            /\ ret.sorting.errors = GroupsOf(args) \cap args.failing
            /\ sorter.errors = GroupsOf(args) \cap args.failing

\* Groups A, B, C with B failing and raise_error off: A and C are in the
\* merged result, B's failure is recorded.
C17_Witness ==
    /\ pc = "done" /\ Grouped /\ ret.kind = "return"
    /\ ~args.raise_error
    /\ args.groups = <<"A", "B", "C">>
    /\ args.failing = {"B"}
    /\ {x.group : x \in ret.sorting.units} = {"A", "C"}
    /\ ret.sorting.errors = {"B"}

\* The same with raise_error on: the run raises after A ended well.
C17_WitnessRaised ==
    /\ pc = "done" /\ Grouped /\ ret.kind = "raise"
    /\ args.raise_error
    /\ args.groups = <<"A", "B", "C">>
    /\ args.failing = {"B"}
    /\ CompletionOrder = <<"A", "B">>

\* C18: a parallel run whose pool backend the class marks unusable ends with
\* UnsupportedConcurrencyModel before any partition has started and before
\* any file is written; for mountainsort4 that is so for 'multiprocessing'
\* and 'threading', while 'loky', which is also what run_sorter passes when
\* the caller names no backend, is never turned away.
C18_PoolBackendGate ==
    pc = "done" =>
       /\ ( args.parallel /\ args.joblib_backend \in {"multiprocessing", "threading"} )
            => /\ ~PoolAdmitted
               /\ trace = << >>
               /\ files = << >>
               /\ \A i \in DOMAIN sorter.partitions :
                     sorter.partitions[i].status = "pending"
       /\ ( ~args.parallel \/ args.joblib_backend \in {"loky", Omitted} ) => PoolAdmitted
       /\ run_sorter_defaults.joblib_backend = "loky"

\* A parallel run with 'threading', turned away.
C18_Witness ==
    /\ pc = "done"
    /\ args.parallel /\ args.joblib_backend = "threading"
    /\ Grouped
    /\ ~PoolAdmitted

\* A parallel run that names no pool backend, admitted and completed.
C18_WitnessDefault ==
    /\ pc = "done"
    /\ args.parallel /\ args.joblib_backend = Omitted
    /\ Grouped
    /\ ret.kind = "return"

\* The moves of a lifecycle instance.
LifecycleMoves ==
    { <<"CREATED", "PARAMS_BOUND">>, <<"PARAMS_BOUND", "RUNNING">>,
      <<"RUNNING", "COMPLETED">>, <<"RUNNING", "FAILED">> }

\* The event the step adds to the trace, if it adds one.
Logged(e) == trace' = Append(trace, e)

\* C19: an instance starts in CREATED and its state changes only along
\* CREATED -> PARAMS_BOUND -> RUNNING -> COMPLETED or FAILED; the run starts
\* only on an instance whose parameters are bound; the result is collected
\* only after the run has returned; COMPLETED and FAILED are left by no step
\* of the instance; and an instance keeps its class and its output folder
\* from construction on, a call constructing one instance at most.
C19_LifecycleOrder ==
    [][ /\ ( sorter = NoFrame /\ sorter' # NoFrame ) =>
              /\ sorter'.state = "CREATED"
              /\ Logged("construct")
              /\ "construct" \notin Events
        /\ ( sorter # NoFrame /\ sorter' # NoFrame ) =>
              /\ sorter'.state = sorter.state
                 \/ <<sorter.state, sorter'.state>> \in LifecycleMoves
              /\ sorter'.cls = sorter.cls
              /\ sorter'.output_folder = sorter.output_folder
              /\ ~Logged("construct")
        /\ Logged("run") =>
              /\ sorter.state = "PARAMS_BOUND"
              /\ sorter'.state = "RUNNING"
        /\ ( Logged("get_result:read") \/ Logged("get_result:empty") ) =>
              /\ pc = "local_249"
              /\ "run" \in Events
              /\ sorter.state \in {"RUNNING", "FAILED"}
              /\ sorter'.state \in {"COMPLETED", "FAILED"}
      ]_vars

\* A call whose instance went through the whole lifecycle and completed.
C19_Witness ==
    /\ Returned
    /\ sorter # NoFrame
    /\ sorter.state = "COMPLETED"
    /\ "run" \in Events
    /\ "get_result:read" \in Events

-----------------------------------------------------------------------------
(* Two callers in the same working directory, each in _run_sorter_hither.    *)
(* The variables of a call are kept per request; dirs and files are the one  *)
(* host filesystem.  The job is the container's run as the host sees it: it  *)
(* ends with the archive written through the output mount, or in error.      *)

Requests == {1, 2}

\* Each caller's own folder, when it names one: the callers never name the
\* same folder.
OwnFolder(r) == IF r = 1 THEN <<"out1">> ELSE <<"out2">>

ConcurrentInputs(r) ==
    { [sorter_name |-> n, output_folder |-> f, delete_output_folder |-> d,
       sorting |-> NoRet, archive_req |-> 0] :
         n \in {"mountainsort4", "kilosort2"},
         f \in {None, OwnFolder(r)},
         d \in BOOLEAN }

InitConcurrent ==
    /\ HAVE_DOCKER = TRUE
    /\ dirs = HostRoot
    /\ files = << >>
    /\ nreq = 0
    /\ args = [r \in Requests |-> NoFrame]
    /\ pc = [r \in Requests |-> "idle"]
    /\ hither = [r \in Requests |-> NoFrame]
    /\ job = [r \in Requests |-> NoFrame]
    /\ local = NoFrame
    /\ sorter = NoFrame
    /\ ret = [r \in Requests |-> NoRet]
    /\ made = {}
    /\ trace = << >>

\* run_sorter(..., use_docker=True) reaches _run_sorter_hither (lines 97-100);
\* the recording is dumpable.
concurrent_call(r, h) ==
    /\ pc[r] = "idle"
    /\ args' = [args EXCEPT ![r] = h]
    /\ hither' = [hither EXCEPT ![r] = h]
    /\ pc' = [pc EXCEPT ![r] = "hither_161"]
    /\ nreq' = nreq + 1
    /\ UNCHANGED <<HAVE_DOCKER, dirs, files, job, local, sorter, ret, made, trace>>

\* Lines 161-164.
concurrent_161(r) ==
    /\ pc[r] = "hither_161"
    /\ LET folder == hither_output_folder(hither[r]) IN
       /\ hither' = [hither EXCEPT ![r].output_folder = folder]
       /\ dirs' = mkdir(dirs, folder)
    /\ pc' = [pc EXCEPT ![r] = "hither_166"]
    /\ UNCHANGED <<HAVE_DOCKER, files, nreq, args, job, local, sorter, ret, made, trace>>

\* Lines 166-178 and the hook's mounts (lines 129-132): the job runs.
concurrent_166(r) ==
    /\ pc[r] = "hither_166"
    /\ job' = [job EXCEPT ![r] =
                 [status |-> "running",
                  mounts |-> precontainer_mounts(
                                [input_directory |-> InputDirectory,
                                 output_directory |-> hither[r].output_folder]),
                  error |-> NoRet]]
    /\ pc' = [pc EXCEPT ![r] = "job"]
    /\ UNCHANGED <<HAVE_DOCKER, dirs, files, nreq, args, hither, local, sorter, ret, made,
                   trace>>

\* The job ends: with its archive written at /output/sorting_docker.npz
\* (line 155), or in error.
concurrent_job(r, ok) ==
    /\ pc[r] = "job"
    /\ IF ok
       THEN /\ files' = write_file(files,
                           container_to_host(job[r].mounts,
                              joinpath(ContainerOutput, "sorting_docker.npz")),
                           [sorting |-> [origin |-> r, empty |-> FALSE], req |-> r])
            /\ job' = [job EXCEPT ![r].status = "finished"]
       ELSE /\ job' = [job EXCEPT ![r].status = "error",
                                  ![r].error = Exc("ExecutionError", 151)]
            /\ UNCHANGED files
    /\ pc' = [pc EXCEPT ![r] = "hither_179"]
    /\ UNCHANGED <<HAVE_DOCKER, dirs, nreq, args, hither, local, sorter, ret, made, trace>>

\* Line 179.
concurrent_179(r) ==
    /\ pc[r] = "hither_179"
    /\ IF wait_raises(job[r])
       THEN /\ ret' = [ret EXCEPT ![r] = [kind |-> "raise", exc |-> job[r].error]]
            /\ pc' = [pc EXCEPT ![r] = "done"]
       ELSE /\ pc' = [pc EXCEPT ![r] = "hither_180"]
            /\ UNCHANGED ret
    /\ UNCHANGED <<HAVE_DOCKER, dirs, files, nreq, args, hither, job, local, sorter, made,
                   trace>>

\* Line 180.
concurrent_180(r) ==
    /\ pc[r] = "hither_180"
    /\ LET p == host_archive_path(hither[r]) IN
       IF p \in DOMAIN files
       THEN /\ hither' = [hither EXCEPT ![r].sorting = files[p].sorting,
                                        ![r].archive_req = files[p].req]
            /\ pc' = [pc EXCEPT ![r] = "hither_181"]
            /\ UNCHANGED ret
       ELSE /\ ret' = [ret EXCEPT ![r] =
                         [kind |-> "raise", exc |-> Exc("FileNotFoundError", 180)]]
            /\ pc' = [pc EXCEPT ![r] = "done"]
            /\ UNCHANGED hither
    /\ UNCHANGED <<HAVE_DOCKER, dirs, files, nreq, args, job, local, sorter, made, trace>>

\* Lines 181-183.
concurrent_181(r) ==
    /\ pc[r] = "hither_181"
    /\ IF hither[r].delete_output_folder
       THEN /\ dirs' = rmtree_dirs(dirs, hither[r].output_folder)
            /\ files' = rmtree_files(files, hither[r].output_folder)
       ELSE UNCHANGED <<dirs, files>>
    /\ ret' = [ret EXCEPT ![r] = [kind |-> "return", sorting |-> hither[r].sorting]]
    /\ pc' = [pc EXCEPT ![r] = "done"]
    /\ UNCHANGED <<HAVE_DOCKER, nreq, args, hither, job, local, sorter, made, trace>>

NextConcurrent ==
    \/ \E r \in Requests : \E h \in ConcurrentInputs(r) : concurrent_call(r, h)
    \/ \E r \in Requests : concurrent_161(r)
    \/ \E r \in Requests : concurrent_166(r)
    \/ \E r \in Requests, ok \in BOOLEAN : concurrent_job(r, ok)
    \/ \E r \in Requests : concurrent_179(r)
    \/ \E r \in Requests : concurrent_180(r)
    \/ \E r \in Requests : concurrent_181(r)

SpecConcurrent == InitConcurrent /\ [][NextConcurrent]_vars

\* The request has its output location and has not returned yet.
InFlight(r) == pc[r] \in {"hither_166", "job", "hither_179", "hither_180", "hither_181"}

\* C20: no two requests in flight at the same time use the same output
\* location, two container requests for the same backend that name no output
\* folder included.
C20_NoSharedOutputLocation ==
    \A r, s \in Requests :
       ( r # s /\ InFlight(r) /\ InFlight(s) )
       => hither[r].output_folder # hither[s].output_folder

-----------------------------------------------------------------------------
(* The same backend output through both launchers.  Locally the sorter      *)
(* writes firings.mda and samplerate.txt into the output folder and the     *)
(* caller's result is read from them.  In the container the sorter writes   *)
(* the same two files into /output/working, the job body reads them, writes *)
(* the result as sorting_docker.npz into /output (line 155) and the host    *)
(* reads that archive (line 180).                                           *)

LocalFolder == absolute(<<"out_local">>)

DockerFolder == absolute(<<"out_docker">>)

DockerMounts ==
    precontainer_mounts([input_directory |-> InputDirectory,
                         output_directory |-> DockerFolder])

\* Line 148: the folder the sorter works in inside the container, as the host
\* sees it.
DockerWorkingFolder ==
    container_to_host(DockerMounts, joinpath(ContainerOutput, "working"))

\* An archive that always carries the sampling rate 30000.0.
npz_write_sorting_fixed_rate(sorting) ==
    { [kind |-> "npz",
       unit_ids |-> sorting.unit_ids,
       cols |-> cols,
       sampling_frequency |-> [type |-> "float", tenths |-> 300000]] :
         cols \in TimeOrdered(ColumnBag(sorting.train)) }

\* Line 155, NpzSortingExtractor.write_sorting: the unit ids, the events in
\* time order (np.argsort again) and the sampling rate as float64.
npz_write_sorting(sorting) ==
    { [kind |-> "npz",
       unit_ids |-> sorting.unit_ids,
       cols |-> cols,
       sampling_frequency |-> [type |-> "float",
                               tenths |-> sorting.sampling_frequency.tenths]] :
         cols \in TimeOrdered(ColumnBag(sorting.train)) }

\* Line 180, NpzSortingExtractor(path).
NpzSortingExtractor(content) ==
    [unit_ids |-> content.unit_ids,
     train |-> [u \in content.unit_ids |-> unit_spike_train(content.cols, u)],
     sampling_frequency |-> content.sampling_frequency]

RECURSIVE FlatColumns(_)
\* The 3 x L array of firings.mda in file order: channel 0, time, label of
\* each column.
FlatColumns(cols) ==
    IF cols = <<>> THEN <<>>
    ELSE <<0, Head(cols).time, Head(cols).label>> \o FlatColumns(Tail(cols))

\* The words of an MDA file: data type code -7 (float64), 8 bytes per entry,
\* 2 dimensions, 3 rows, L columns, then the array.
MdaWords(content) == <<-7, 8, 2, 3, Len(content.cols)>> \o FlatColumns(content.cols)

RECURSIVE SetToSeq(_)
SetToSeq(S) ==
    IF S = {} THEN <<>>
    ELSE LET x == CHOOSE y \in S : \A z \in S : y <= z
         IN  <<x>> \o SetToSeq(S \ {x})

\* The words of an NPZ archive: the zip signature 0x04034b50, then the
\* members unit_ids, spike_indexes, spike_labels and sampling_frequency.
NpzWords(content) ==
    <<67324752>> \o SetToSeq(content.unit_ids)
    \o [i \in DOMAIN content.cols |-> content.cols[i].time]
    \o [i \in DOMAIN content.cols |-> content.cols[i].label]
    \o <<content.sampling_frequency.tenths>>

FileWords(content) ==
    IF content.kind = "mda" THEN MdaWords(content) ELSE NpzWords(content)

InitDispatch ==
    /\ HAVE_DOCKER = TRUE
    /\ dirs = mkdir(mkdir(HostRoot, LocalFolder), DockerWorkingFolder)
    /\ files = << >>
    /\ nreq = 0
    /\ \E R \in Sortings, S \in SampleRates :
          args = [status |-> "called", sorting |-> R, samplerate |-> S]
    /\ pc = [host |-> "_run", docker |-> "_run"]
    /\ hither = NoFrame
    /\ job = NoFrame
    /\ local = NoFrame
    /\ sorter = NoFrame
    /\ ret = [host |-> NoRet, docker |-> NoRet]
    /\ made = {}
    /\ trace = << >>

\* The output folder of the sorter instance: the caller's on the host, the
\* working folder in the container.
dispatch_folder(side) == IF side = "host" THEN LocalFolder ELSE DockerWorkingFolder

\* Mountainsort4Sorter._run, lines 131-135.  The two calls of run_sorter are
\* made one after the other, the local one first.
dispatch_run(side) ==
    /\ pc[side] = "_run"
    /\ side = "docker" => pc.host = "done"
    /\ LET folder == dispatch_folder(side) IN
       \E content \in write_sorting(args.sorting) :
          files' = write_file(
                      write_file(files, joinpath(folder, "firings.mda"), content),
                      joinpath(folder, "samplerate.txt"),
                      [kind |-> "text", chars |-> format_samplerate(args.samplerate)])
    /\ pc' = [pc EXCEPT ![side] = "get_result"]
    /\ UNCHANGED <<HAVE_DOCKER, dirs, nreq, args, hither, job, local, sorter, ret, made, trace>>

\* Local dispatch, line 249 and the return of run_sorter.
dispatch_local_249 ==
    /\ pc.host = "get_result"
    /\ ret' = [ret EXCEPT !.host =
                 [kind |-> "return",
                  sorting |-> read_result_folder(files, LocalFolder).sorting]]
    /\ pc' = [pc EXCEPT !.host = "done"]
    /\ UNCHANGED <<HAVE_DOCKER, dirs, files, nreq, args, hither, job, local, sorter, made,
                   trace>>

\* Container dispatch, lines 151-155: the job body gets the sorting from the
\* working folder and writes the archive.
dispatch_job_155 ==
    /\ pc.docker = "get_result"
    /\ \E content \in npz_write_sorting(
                         read_result_folder(files, DockerWorkingFolder).sorting) :
          files' = write_file(files,
                      container_to_host(DockerMounts,
                         joinpath(ContainerOutput, "sorting_docker.npz")),
                      content)
    /\ pc' = [pc EXCEPT !.docker = "hither_180"]
    /\ UNCHANGED <<HAVE_DOCKER, dirs, nreq, args, hither, job, local, sorter, ret, made, trace>>

\* Container dispatch, line 180 and the return of run_sorter.
dispatch_hither_180 ==
    /\ pc.docker = "hither_180"
    /\ ret' = [ret EXCEPT !.docker =
                 [kind |-> "return",
                  sorting |-> NpzSortingExtractor(
                                 files[joinpath(DockerFolder, "sorting_docker.npz")])]]
    /\ pc' = [pc EXCEPT !.docker = "done"]
    /\ UNCHANGED <<HAVE_DOCKER, dirs, files, nreq, args, hither, job, local, sorter, made,
                   trace>>

NextDispatch ==
    \/ \E side \in {"host", "docker"} : dispatch_run(side)
    \/ dispatch_local_249
    \/ dispatch_job_155
    \/ dispatch_hither_180

SpecDispatch == InitDispatch /\ [][NextDispatch]_vars

\* Both dispatches have returned.
BothDispatched == pc.host = "done" /\ pc.docker = "done"

\* C21 as stated: the artifact the container dispatch hands to the caller,
\* sorting_docker.npz, and the artifact the local dispatch hands to the
\* caller, firings.mda, are the same file word for word.
C21_ArtifactsByteEqual ==
    BothDispatched =>
       FileWords(files[joinpath(DockerFolder, "sorting_docker.npz")])
         = FileWords(files[joinpath(LocalFolder, "firings.mda")])

\* C21 as amended: the results the two dispatches return have the same unit
\* labels, the same events per unit and the same sampling rate.
C21_ResultsEqual ==
    BothDispatched =>
       /\ ret.docker.sorting.unit_ids = ret.host.sorting.unit_ids
       /\ \A u \in ret.host.sorting.unit_ids :
             ret.docker.sorting.train[u] = ret.host.sorting.train[u]
       /\ ret.docker.sorting.sampling_frequency.tenths
            = ret.host.sorting.sampling_frequency.tenths

\* Two units with events and a sampling rate with a fraction, returned by
\* both dispatches.
C21_Witness ==
    /\ BothDispatched
    /\ args.sorting = (0 :> <<10, 20>> @@ 1 :> <<10>>)
    /\ args.samplerate = [type |-> "float", tenths |-> 244141]
    /\ ret.host.sorting.unit_ids = {0, 1}
    /\ ret.docker.sorting.train[0] = <<10, 20>>

-----------------------------------------------------------------------------
(* run_sorter alone, lines 87-106, with every option of its signature: the   *)
(* launcher is a callee that returns a sorting or raises.                    *)

OptionNames ==
    {"output_folder", "delete_output_folder", "grouping_property", "parallel",
     "verbose", "raise_error", "n_jobs", "joblib_backend", "params"}

RouteInputs ==
    { [sorter_name_or_class |-> x, use_docker |-> u,
       output_folder |-> o, delete_output_folder |-> d, grouping_property |-> g,
       parallel |-> p, verbose |-> v, raise_error |-> r, n_jobs |-> n,
       joblib_backend |-> b, params |-> ps] :
         x \in SorterInputs, u \in BOOLEAN, o \in OutputFolderInputs, d \in BOOLEAN,
         g \in {"", "group"}, p \in BOOLEAN, v \in BOOLEAN, r \in BOOLEAN,
         n \in {-1, 2}, b \in {"loky", "threading"}, ps \in ParamsInputs }

\* What the launcher may answer.
LauncherOutcomes ==
    { [kind |-> "return", sorting |-> [origin |-> 1, empty |-> FALSE]],
      [kind |-> "return", sorting |-> [origin |-> 1, empty |-> TRUE]],
      [kind |-> "raise", exc |-> Exc("ExecutionError", 248)] }

\* The call of a launcher with verbose left to the launcher's default.
launcher_options_verbose_dropped(a) ==
    [output_folder |-> a.output_folder,
     delete_output_folder |-> a.delete_output_folder,
     grouping_property |-> a.grouping_property,
     parallel |-> a.parallel,
     verbose |-> FALSE,
     raise_error |-> a.raise_error,
     n_jobs |-> a.n_jobs,
     joblib_backend |-> a.joblib_backend,
     params |-> a.params]

\* Lines 97-100 and 102-105: the keyword arguments of the launcher's call,
\* the same list in both branches.
launcher_options(a) ==
    [output_folder |-> a.output_folder,
     delete_output_folder |-> a.delete_output_folder,
     grouping_property |-> a.grouping_property,
     parallel |-> a.parallel,
     verbose |-> a.verbose,
     raise_error |-> a.raise_error,
     n_jobs |-> a.n_jobs,
     joblib_backend |-> a.joblib_backend,
     params |-> a.params]

InitRoute ==
    /\ HAVE_DOCKER \in BOOLEAN
    /\ dirs = HostRoot
    /\ files = << >>
    /\ nreq = 0
    /\ args \in RouteInputs
    /\ pc = "run_sorter"
    /\ hither = NoFrame
    /\ job = NoFrame
    /\ local = NoFrame
    /\ sorter = NoFrame
    /\ ret = NoRet
    /\ made = {}
    /\ trace = << >>

\* Lines 87-105 up to the launcher's call.
route_87 ==
    /\ pc = "run_sorter"
    /\ LET r == run_sorter_route(args, HAVE_DOCKER) IN
       CASE r.to = "raise" ->
                /\ ret' = [kind |-> "raise", exc |-> r.exc]
                /\ pc' = "done"
                /\ UNCHANGED <<hither, local>>
         [] r.to = "hither" ->
                /\ hither' = [status |-> "called", sorter_name |-> r.sorter_name,
                              options |-> launcher_options(args), answer |-> NoRet]
                /\ pc' = "launcher"
                /\ UNCHANGED <<ret, local>>
         [] r.to = "local" ->
                /\ local' = [status |-> "called",
                             sorter_name_or_class |-> args.sorter_name_or_class,
                             options |-> launcher_options(args), answer |-> NoRet]
                /\ pc' = "launcher"
                /\ UNCHANGED <<ret, hither>>
    /\ UNCHANGED <<HAVE_DOCKER, dirs, files, nreq, args, job, sorter, made, trace>>

\* The launcher answers.
route_launcher(answer) ==
    /\ pc = "launcher"
    /\ IF hither # NoFrame
       THEN hither' = [hither EXCEPT !.answer = answer] /\ UNCHANGED local
       ELSE local' = [local EXCEPT !.answer = answer] /\ UNCHANGED hither
    /\ pc' = "line_106"
    /\ UNCHANGED <<HAVE_DOCKER, dirs, files, nreq, args, job, sorter, ret, made, trace>>

\* Line 106: `return sorting`; a launcher's exception passes through.
route_106 ==
    /\ pc = "line_106"
    /\ ret' = IF hither # NoFrame THEN hither.answer ELSE local.answer
    /\ pc' = "done"
    /\ UNCHANGED <<HAVE_DOCKER, dirs, files, nreq, args, hither, job, local, sorter, made,
                   trace>>

NextRoute ==
    \/ route_87
    \/ \E answer \in LauncherOutcomes : route_launcher(answer)
    \/ route_106

SpecRoute == InitRoute /\ [][NextRoute]_vars

\* The launcher run_sorter called, if it called one.
Launched == IF hither # NoFrame THEN hither ELSE local

\* C22: run_sorter calls one launcher, the container launcher exactly when
\* use_docker is set; the launcher gets every option with the caller's value;
\* what run_sorter returns or raises after the call is what the launcher
\* returned or raised; and run_sorter leaves the options and the filesystem
\* as they were.
C22_PureRouting ==
    /\ args \in RouteInputs
    /\ dirs = HostRoot /\ files = << >>
    /\ ~(hither # NoFrame /\ local # NoFrame)
    /\ Launched # NoFrame =>
          /\ (hither # NoFrame) <=> args.use_docker
          /\ \A o \in OptionNames : Launched.options[o] = args[o]
          /\ DOMAIN Launched.options = OptionNames
          /\ pc = "done" => ret = Launched.answer

\* A container call with every option away from its default, returned.
C22_Witness ==
    /\ pc = "done"
    /\ ret.kind = "return"
    /\ hither # NoFrame
    /\ args.verbose /\ args.parallel /\ ~args.raise_error /\ args.delete_output_folder
    /\ args.n_jobs = 2 /\ args.joblib_backend = "threading"
    /\ args.grouping_property = "group" /\ args.output_folder = <<"out">>
    /\ args.params = {"bogus"}

\* A local call, returned.
C22_WitnessLocal ==
    /\ pc = "done"
    /\ ret.kind = "return"
    /\ local # NoFrame
    /\ args.verbose /\ args.n_jobs = 2

-----------------------------------------------------------------------------
(* available_sorters and installed_sorters, lines 254-266.  Which sorters    *)
(* are installed is a fact of the environment: each class answers            *)
(* is_installed() from a flag set when its module was imported.              *)

\* The characters of the sorter names, in code point order.
Alphabet == <<"2", "3", "4", "5", "_", "a", "b", "c", "d", "e", "g", "h", "i", "k", "l", "m", "n", "o", "p", "r", "s", "t", "u", "v", "w", "y">>

CodeRank(c) == CHOOSE i \in DOMAIN Alphabet : Alphabet[i] = c

\* A sorter name letter by letter.
Spelling(n) ==
    CASE n = "hdsort" -> <<"h", "d", "s", "o", "r", "t">>
      [] n = "klusta" -> <<"k", "l", "u", "s", "t", "a">>
      [] n = "tridesclous" -> <<"t", "r", "i", "d", "e", "s", "c", "l", "o", "u", "s">>
      [] n = "mountainsort4" -> <<"m", "o", "u", "n", "t", "a", "i", "n", "s", "o", "r", "t", "4">>
      [] n = "ironclust" -> <<"i", "r", "o", "n", "c", "l", "u", "s", "t">>
      [] n = "kilosort" -> <<"k", "i", "l", "o", "s", "o", "r", "t">>
      [] n = "kilosort2" -> <<"k", "i", "l", "o", "s", "o", "r", "t", "2">>
      [] n = "kilosort2_5" -> <<"k", "i", "l", "o", "s", "o", "r", "t", "2", "_", "5">>
      [] n = "kilosort3" -> <<"k", "i", "l", "o", "s", "o", "r", "t", "3">>
      [] n = "spykingcircus" -> <<"s", "p", "y", "k", "i", "n", "g", "c", "i", "r", "c", "u", "s">>
      [] n = "herdingspikes" -> <<"h", "e", "r", "d", "i", "n", "g", "s", "p", "i", "k", "e", "s">>
      [] n = "waveclus" -> <<"w", "a", "v", "e", "c", "l", "u", "s">>
      [] n = "yass" -> <<"y", "a", "s", "s">>
      [] n = "combinato" -> <<"c", "o", "m", "b", "i", "n", "a", "t", "o">>

RECURSIVE SeqLess(_, _)
\* s < t for sequences of characters, as Python compares str.
SeqLess(s, t) ==
    IF t = <<>> THEN FALSE
    ELSE IF s = <<>> THEN TRUE
    ELSE IF Head(s) = Head(t) THEN SeqLess(Tail(s), Tail(t))
    ELSE CodeRank(Head(s)) < CodeRank(Head(t))

StrLess(a, b) == SeqLess(Spelling(a), Spelling(b))

\* One element put into a sorted list.
Inserted(l, x) ==
    LET before == SelectSeq(l, LAMBDA y : ~StrLess(x, y))
        after  == SelectSeq(l, LAMBDA y : StrLess(x, y))
    IN  before \o <<x>> \o after

RECURSIVE sorted(_)
\* sorted(l) of a list of names.
sorted(l) == IF l = <<>> THEN <<>> ELSE Inserted(sorted(Tail(l)), Head(l))

\* The classes of sorter_full_list.
SorterClasses == {sorter_full_list[i] : i \in DOMAIN sorter_full_list}

\* Line 258: sorted(list(sorter_dict.keys())); the dictionary keeps the order
\* of sorter_full_list.
available_sorters ==
    sorted([i \in DOMAIN sorter_full_list |-> sorter_name_of[sorter_full_list[i]]])

\* installed_sorters without the sort: the order of sorter_full_list.
installed_sorters_unsorted(installed) ==
    LET kept == SelectSeq(sorter_full_list, LAMBDA s : s \in installed)
    IN  [i \in DOMAIN kept |-> sorter_name_of[kept[i]]]

\* Line 265: sorted([s.sorter_name for s in sorter_full_list if s.is_installed()]).
installed_sorters(installed) ==
    LET kept == SelectSeq(sorter_full_list, LAMBDA s : s \in installed)
    IN  sorted([i \in DOMAIN kept |-> sorter_name_of[kept[i]]])

InitRegistry ==
    /\ HAVE_DOCKER \in BOOLEAN
    /\ dirs = HostRoot
    /\ files = << >>
    /\ nreq = 0
    /\ args = NoFrame
    /\ pc = "idle"
    /\ hither = NoFrame
    /\ job = NoFrame
    /\ local = NoFrame
    /\ \E installed \in SUBSET SorterClasses :
          sorter = [status |-> "imported", installed |-> installed]
    /\ ret = NoRet
    /\ made = {}
    /\ trace = << >>

\* available_sorters() is called and returns.
call_available_sorters ==
    /\ pc = "idle"
    /\ args' = [status |-> "called", op |-> "available_sorters"]
    /\ ret' = [kind |-> "return", list |-> available_sorters]
    /\ pc' = "done"
    /\ UNCHANGED <<HAVE_DOCKER, dirs, files, nreq, hither, job, local, sorter, made, trace>>

\* installed_sorters() is called and returns.
call_installed_sorters ==
    /\ pc = "idle"
    /\ args' = [status |-> "called", op |-> "installed_sorters"]
    /\ ret' = [kind |-> "return", list |-> installed_sorters(sorter.installed)]
    /\ pc' = "done"
    /\ UNCHANGED <<HAVE_DOCKER, dirs, files, nreq, hither, job, local, sorter, made, trace>>

NextRegistry ==
    \/ call_available_sorters
    \/ call_installed_sorters

SpecRegistry == InitRegistry /\ [][NextRegistry]_vars

Elements(l) == {l[i] : i \in DOMAIN l}

\* Strictly ascending: in order and without a name twice.
StrictlySorted(l) == \A i, j \in DOMAIN l : i < j => StrLess(l[i], l[j])

\* C23: the list installed_sorters returns is strictly ascending, holds
\* exactly the names of the classes of sorter_full_list whose is_installed()
\* is true, and is within the list available_sorters returns; that list is
\* strictly ascending and holds the registered names; and every name of
\* either list resolves.
C23_InstalledSorters ==
    ( pc = "done" /\ ret.kind = "return" ) =>
       /\ StrictlySorted(ret.list)
       /\ \A n \in Elements(ret.list) :
             local_resolve([kind |-> "str", val |-> n]).ok
       /\ args.op = "installed_sorters" =>
             /\ Elements(ret.list) = { sorter_name_of[c] : c \in sorter.installed }
             /\ Len(ret.list) = Cardinality(sorter.installed)
             /\ Elements(ret.list) \subseteq Elements(available_sorters)
       /\ args.op = "available_sorters" =>
             /\ Elements(ret.list) = DOMAIN sorter_dict
             /\ Len(ret.list) = Len(sorter_full_list)

\* Three sorters installed, listed in name order, which is not the order of
\* sorter_full_list.
C23_Witness ==
    /\ pc = "done"
    /\ args.op = "installed_sorters"
    /\ sorter.installed = {"KlustaSorter", "Mountainsort4Sorter", "CombinatoSorter"}
    /\ ret.list = <<"combinato", "klusta", "mountainsort4">>

\* ---------------------------------------------------------------------------
\* The stages of Mountainsort4Sorter._run (mountainsort4.py 87-135) and the
\* read of the folder it leaves (137-148).  Parameter values are written as
\* Python writes them: "None", "True", "False", "1", "300", "0.15".
\* ---------------------------------------------------------------------------

\* _default_params, the keys _run branches on.
ms4_default_params ==
    [filter |-> "True", freq_min |-> "300", freq_max |-> "6000", whiten |-> "True",
     curation |-> "False", noise_overlap_threshold |-> "0.15"]

\* The parameters a run may be bound to: the defaults and what a caller may
\* put in their place (None, a false value, a true value that is not True).
StageParams ==
    [filter : {"True", "False"}, freq_min : {"None", "300"}, freq_max : {"None", "6000"},
     whiten : {"True", "False"}, curation : {"True", "False", "1"},
     noise_overlap_threshold : {"None", "0", "0.15"}]

\* Python truth of a parameter value.
truthy(v) == v \notin {"None", "False", "0"}

filter_enabled_whatever_band(p) == truthy(p.filter)

\* Line 100: if p['filter'] and p['freq_min'] is not None and p['freq_max'] is not None
filter_enabled(p) ==
    truthy(p.filter) /\ p.freq_min # "None" /\ p.freq_max # "None"

\* Line 104: if p['whiten']
whiten_enabled(p) == truthy(p.whiten)

curation_enabled_truthy(p) == truthy(p.noise_overlap_threshold) /\ truthy(p.curation)

\* Line 122: if p['noise_overlap_threshold'] is not None and p['curation'] is True
curation_enabled(p) == p.noise_overlap_threshold # "None" /\ p.curation = "True"

\* What ml_ms4alg.mountainsort4 finds in the recording (lines 109-119), and the
\* units whose noise overlap is above the threshold.
StageRawSorting == (0 :> <<10>>) @@ (1 :> <<20>>)

StageNoisyUnits == {1}

\* Lines 125-129: ml_ms4alg.mountainsort4_curation drops the noisy units.
mountainsort4_curation(sorting, noisy) ==
    [u \in DOMAIN sorting \ noisy |-> sorting[u]]

StagePositions == {"run_88", "run_100", "run_104", "run_109", "run_122"}

InitStages ==
    /\ HAVE_DOCKER \in BOOLEAN
    /\ dirs = mkdir(HostRoot, ResultFolder)
    /\ \E f \in StaleFirings, t \in StaleSamplerates : files = FolderFiles(f, t)
    /\ nreq = 0
    /\ \E p \in StageParams :
          args = [status |-> "run", p |-> p, sorting |-> << >>,
                  samplerate |-> [type |-> "float", tenths |-> 300000],
                  before |-> files]
    /\ pc = "run_88"
    /\ hither = NoFrame
    /\ job = NoFrame
    /\ local = NoFrame
    /\ sorter = NoFrame
    /\ ret = NoRet
    /\ made = {}
    /\ trace = << >>

\* Lines 88-97: the recording is recovered and its sampling rate taken.
stage_88 ==
    /\ pc = "run_88"
    /\ pc' = "run_100"
    /\ UNCHANGED <<HAVE_DOCKER, dirs, files, nreq, args, hither, job, local, sorter, ret,
                   made, trace>>

\* Lines 100-101: bandpass filter.
stage_100 ==
    /\ pc = "run_100"
    /\ trace' = IF filter_enabled(args.p) THEN Append(trace, "bandpass_filter") ELSE trace
    /\ pc' = "run_104"
    /\ UNCHANGED <<HAVE_DOCKER, dirs, files, nreq, args, hither, job, local, sorter, ret, made>>

\* Lines 104-105: whiten.
stage_104 ==
    /\ pc = "run_104"
    /\ trace' = IF whiten_enabled(args.p) THEN Append(trace, "whiten") ELSE trace
    /\ pc' = "run_109"
    /\ UNCHANGED <<HAVE_DOCKER, dirs, files, nreq, args, hither, job, local, sorter, ret, made>>

\* Lines 109-119: sorting = ml_ms4alg.mountainsort4(...)
stage_109 ==
    /\ pc = "run_109"
    /\ args' = [args EXCEPT !.sorting = StageRawSorting]
    /\ trace' = Append(trace, "mountainsort4")
    /\ pc' = "run_122"
    /\ UNCHANGED <<HAVE_DOCKER, dirs, files, nreq, hither, job, local, sorter, ret, made>>

\* Lines 122-129: curation of the sorting just made.
stage_122 ==
    /\ pc = "run_122"
    /\ IF curation_enabled(args.p)
       THEN /\ args' = [args EXCEPT
                           !.sorting = mountainsort4_curation(args.sorting, StageNoisyUnits)]
            /\ trace' = Append(trace, "mountainsort4_curation")
       ELSE UNCHANGED <<args, trace>>
    /\ pc' = "run_131"
    /\ UNCHANGED <<HAVE_DOCKER, dirs, files, nreq, hither, job, local, sorter, ret, made>>

\* A stage that has something to call may raise; a skipped stage calls nothing.
stage_calls(position, p) ==
    CASE position = "run_100" -> filter_enabled(p)
      [] position = "run_104" -> whiten_enabled(p)
      [] position = "run_122" -> curation_enabled(p)
      [] OTHER -> TRUE

stage_raises ==
    /\ pc \in StagePositions
    /\ stage_calls(pc, args.p)
    /\ pc' = "run_raised"
    /\ UNCHANGED <<HAVE_DOCKER, dirs, files, nreq, args, hither, job, local, sorter, ret,
                   made, trace>>

NextStages ==
    \/ stage_88
    \/ stage_100
    \/ stage_104
    \/ stage_109
    \/ stage_122
    \/ stage_raises
    \/ run_131
    \/ run_134
    \/ run_135
    \/ run_raises
    \/ read_result

SpecStages == InitStages /\ [][NextStages]_vars

\* Stage e is in the trace.
Staged(e) == \E i \in DOMAIN trace : trace[i] = e

\* Where e stands in the trace, 0 when it is not there.
PositionOf(e) ==
    IF Staged(e) THEN CHOOSE i \in DOMAIN trace : trace[i] = e ELSE 0

\* The run has reached line 131.
PastCuration ==
    \/ pc \in {"run_131", "run_134", "run_135", "run_returned"}
    \/ Staged("firings.mda")

\* C24: in a mountainsort4 run the curation stage is executed exactly when
\* 'curation' is True and 'noise_overlap_threshold' is not None; it comes
\* after the sorting and before firings.mda is written, the file written holds
\* the curated result when it ran and the raw one when it did not, and with
\* the default parameters it does not run.
C24_CurationStage ==
    LET p     == args.p
        wants == p.curation = "True" /\ p.noise_overlap_threshold # "None"
        mda   == joinpath(ResultFolder, "firings.mda")
    IN  /\ Staged("mountainsort4_curation") => wants
        /\ PastCuration => (Staged("mountainsort4_curation") <=> wants)
        /\ Staged("mountainsort4_curation") =>
              /\ Staged("mountainsort4")
              /\ PositionOf("mountainsort4") < PositionOf("mountainsort4_curation")
              /\ Staged("firings.mda") =>
                    PositionOf("mountainsort4_curation") < PositionOf("firings.mda")
        /\ Staged("firings.mda") =>
              files[mda] \in write_sorting(
                  IF wants THEN mountainsort4_curation(StageRawSorting, StageNoisyUnits)
                           ELSE StageRawSorting)
        /\ (p = ms4_default_params /\ Staged("firings.mda")) =>
              /\ ~Staged("mountainsort4_curation")
              /\ files[mda] \in write_sorting(StageRawSorting)

\* A run with curation wrote the curated result, a noisy unit dropped.
C24_Witness ==
    /\ pc = "run_returned"
    /\ Staged("mountainsort4_curation")
    /\ files[joinpath(ResultFolder, "firings.mda")].cols = << [time |-> 10, label |-> 0] >>

\* A run with the default parameters wrote the raw result.
C24_WitnessDefaults ==
    /\ pc = "run_returned"
    /\ args.p = ms4_default_params
    /\ ~Staged("mountainsort4_curation")
    /\ Len(files[joinpath(ResultFolder, "firings.mda")].cols) = 2

\* The stages the parameters call for, in the order of the source.
ExpectedStages(p) ==
    (IF p.filter = "True" /\ p.freq_min # "None" /\ p.freq_max # "None"
        THEN <<"bandpass_filter">> ELSE << >>)
    \o (IF p.whiten = "True" THEN <<"whiten">> ELSE << >>)
    \o <<"mountainsort4">>
    \o (IF p.curation = "True" /\ p.noise_overlap_threshold # "None"
        THEN <<"mountainsort4_curation">> ELSE << >>)
    \o <<"firings.mda", "samplerate.txt">>

\* The run has ended with an exception (and the folder may have been read since).
RunFailed ==
    /\ pc \in {"run_raised", "done"}
    /\ ~Staged("samplerate.txt")

\* C25: the stages of a run come in the order bandpass filter (only when
\* 'filter' is set and both band edges are not None), whiten (only when
\* 'whiten' is set), sort, curate, write firings.mda, write samplerate.txt; a
\* failure before the writes leaves the folder's files as they were, and a
\* failure between the two writes leaves firings.mda without a sampling-rate
\* file that can be read, so that reading the folder raises.
C25_StageOrderAndFailures ==
    LET stages == SelectSeq(trace, LAMBDA e : e # "get_result_from_folder")
    IN  /\ IsPrefixOf(stages, ExpectedStages(args.p))
        /\ (RunFailed /\ ~Staged("firings.mda")) => files = args.before
        /\ (RunFailed /\ Staged("firings.mda")) =>
              /\ HasArtifact
              /\ ~(HasSidecar /\ SidecarIsNumber)
              /\ pc = "done" => ret.kind = "raise"

\* ---------------------------------------------------------------------------
\* The end of a container launch (sorterlist.py 161-183)
\* ---------------------------------------------------------------------------

\* A container launch that made its output directory has ended.
HitherEnded ==
    /\ pc = "done"
    /\ hither # NoFrame
    /\ "mkdir" \in Events

\* C26: at the end of a container launch the host output directory is gone
\* exactly when delete_output_folder was given and the archive was read; when
\* the wait or the read raised, the directory and everything made for the
\* request are still there, whatever the flag.
C26_DeletedOnlyAfterRead ==
    HitherEnded =>
        LET gone == hither.output_folder \notin dirs
        IN  /\ gone <=> (args.delete_output_folder /\ "read" \in Events)
            /\ ret.kind = "raise" =>
                  /\ hither.output_folder \in dirs
                  /\ made \subseteq dirs
                  /\ "rmtree" \notin Events

\* The flag was given, the archive was read, and the directory is gone.
C26_Witness ==
    /\ HitherEnded
    /\ args.delete_output_folder
    /\ ret.kind = "return"
    /\ hither.output_folder \notin dirs

\* The flag was given, the wait raised, and the directory is still there.
C26_WitnessRaised ==
    /\ HitherEnded
    /\ args.delete_output_folder
    /\ ret.kind = "raise"
    /\ "submit" \in Events
    /\ hither.output_folder \in dirs

\* ---------------------------------------------------------------------------
\* The local run inside the container (sorterlist.py 143-155, 168-177)
\* ---------------------------------------------------------------------------

\* _run_sorter_local has been entered by the job body of this call.
InnerRun ==
    /\ InCall
    /\ local # NoFrame
    /\ local.ctx = "container"

\* C27: the local run inside the container is given the folder
\* '<container output path>/working' and delete_output_folder False, whatever
\* output folder and flag the caller gave; it works in that folder, never in
\* the host output path, and when the host comes to read the archive the file
\* this job wrote next to the working folder is there.
C27_InnerRunWorkingFolder ==
    /\ InnerRun =>
          /\ local.output_folder = joinpath(ContainerOutput, "working")
          /\ local.delete_output_folder = FALSE
          /\ local.output_folder # hither.output_folder
          /\ sorter # NoFrame =>
                /\ sorter.output_folder = joinpath(ContainerOutput, "working")
                /\ sorter.delete_folders = FALSE
    /\ (InnerRun /\ pc \in {"hither_180", "hither_181"}) =>
          /\ host_archive_path(hither) \in DOMAIN files
          /\ files[host_archive_path(hither)].req = nreq
          /\ joinpath(hither.output_folder, "working") \in dirs

\* The caller named an output folder and asked for its deletion; the host is
\* about to read the archive of the inner run.
C27_Witness ==
    /\ InnerRun
    /\ pc = "hither_180"
    /\ args.delete_output_folder
    /\ args.output_folder # None
    /\ local.output_folder = joinpath(ContainerOutput, "working")
    /\ host_archive_path(hither) \in DOMAIN files

====
